---- MODULE Spec2Model ----
(***************************************************************************)
(* Screenshot splitter: pixel-level decomposition (detectPixelBlocks),     *)
(* semantic refinement (handleRefine), snapshot backup/restore and the     *)
(* retry wrapper (withRetry) around calls to the language model.           *)
(***************************************************************************)
EXTENDS Integers, Sequences, FiniteSets, TLC

VARIABLES
    \* ---- withRetry (services/openai.ts) ----
    rPc,          \* "call": fn() in flight, "wait": in the backoff setTimeout, "done"
    rI,           \* loop index i
    rCalls,       \* outcomes of the invocations of fn so far, in order
    rWaits,       \* the delays (ms) of the backoff waits so far, in order
    rLastError,   \* lastError
    rOutcome,     \* what the caller gets: [kind |-> "pending"|"resolved"|"rejected", ...]
    rFn,          \* the exported function whose call of the model withRetry wraps
    rAnswers,     \* the contents the model answered with, each with the number of its call
    \* ---- detectPixelBlocks called directly (utils/imageProcessing) ----
    pImg,         \* the image handed to detectPixelBlocks
    pThreshold,   \* invalidThreshold, in percent
    pRatio,       \* minHeightRatio, in thousandths
    pRuns,        \* the results of the runs made so far on these inputs, in order
    \* ---- the clock ----
    clock,        \* Date.now()
    \* ---- App (React state of the component) ----
    strategy,     \* which handleRefine the App has: "mapping", "pairwise" or "pipeline"
    originalImage, analyzing, refining,
    blocks, invalidBlocks, separators, refinedBlocks,
    completeness, refinementCompleteness,
    activeTab, error, invalidThreshold, minBlockRatio, semanticLog,
    \* ---- App (handlers suspended at an await, with the values they captured) ----
    pi,           \* processImage
    rf,           \* handleRefine
    rs,           \* handleRestore
    files,        \* the backup files handleBackup has written
    saved,        \* for each file, the state it was written from
    \* ---- App whose handleRefine is the three-step chain ----
    pl,           \* the runs of handleRefine so far, in the order they were started
    \* ---- handleRefine whose first pass is made in batches ----
    bt            \* the sequences of blocks, how far each has got, and the stream

retryVars == <<rPc, rI, rCalls, rWaits, rLastError, rOutcome, rFn, rAnswers>>

pixelVars == <<pImg, pThreshold, pRatio, pRuns>>

listVars == <<blocks, invalidBlocks, separators, refinedBlocks,
              completeness, refinementCompleteness, activeTab, semanticLog>>

configVars == <<invalidThreshold, minBlockRatio>>

runVars == <<pi, rf, rs>>

fileVars == <<files, saved>>

appVars == <<strategy, originalImage, analyzing, refining, listVars, error, configVars,
             runVars, fileVars>>

pipeVars == <<pl>>

batchVars == <<bt>>

vars == <<retryVars, pixelVars, pipeVars, batchVars, clock, appVars>>

(***************************************************************************)
(* Small arithmetic helpers                                                *)
(***************************************************************************)
Min(a, b) == IF a <= b THEN a ELSE b
Max(a, b) == IF a >= b THEN a ELSE b

RECURSIVE Pow2(_)
Pow2(n) == IF n = 0 THEN 1 ELSE 2 * Pow2(n - 1)

(***************************************************************************)
(* Numbers.  Box coordinates are the exact rationals startY / height * 1000 *)
(* of the code, held as integers in units of 1 / Den, where Den is a        *)
(* common multiple of every image height of the model.                     *)
(***************************************************************************)
RECURSIVE GCD(_, _)
GCD(a, b) == IF b = 0 THEN a ELSE GCD(b, a % b)

RECURSIVE LCMOf(_)
LCMOf(S) == IF S = {} THEN 1
            ELSE LET n == CHOOSE v \in S : TRUE
                     m == LCMOf(S \ {n})
                 IN (m * n) \div GCD(m, n)

\* Math.round(a / b) for a >= 0, b > 0
RoundDiv(a, b) == (2 * a + b) \div (2 * b)

SeqToSet(q) == { q[i] : i \in 1..Len(q) }

RECURSIVE SumSeq(_)
SumSeq(q) ==
    IF q = <<>> THEN 0
    ELSE IF Len(q) = 1 THEN q[1]
    ELSE SumSeq(SubSeq(q, 1, Len(q) \div 2)) + SumSeq(SubSeq(q, Len(q) \div 2 + 1, Len(q)))

(***************************************************************************)
(* Images.  An image (the data URL) is a width and one row kind per row;   *)
(* PixelAt decodes it to the RGBA values getImageData returns.             *)
(***************************************************************************)
Black == [r |-> 0, g |-> 0, b |-> 0, a |-> 255]
NearBlack == [r |-> 7, g |-> 7, b |-> 7, a |-> 255]
DarkGrey == [r |-> 8, g |-> 8, b |-> 8, a |-> 255]
White == [r |-> 255, g |-> 255, b |-> 255, a |-> 255]
\* a fully transparent pixel reads back as 0,0,0,0
Clear == [r |-> 0, g |-> 0, b |-> 0, a |-> 0]

RowKinds == {"flat", "fuzzy", "edge", "dim", "glass", "hue"}

\* pixel (x, y), 0-based, of an image of width w whose row y has kind k
PixelOf(k, x, y, w) ==
    CASE k = "flat"  -> Black
      [] k = "fuzzy" -> IF x = 0 THEN NearBlack ELSE Black
      [] k = "edge"  -> IF x = 0 THEN White ELSE Black
      [] k = "dim"   -> IF x < 2 THEN DarkGrey ELSE Black
      [] k = "glass" -> IF x % 2 = 0 THEN White ELSE Clear
      [] k = "hue"   -> [r |-> 100, g |-> 100, b |-> 100 + ((y * w + x) % 32), a |-> 255]

imgHeight(img) == Len(img.rows)

PixelAt(img, x, y) == PixelOf(img.rows[y + 1], x, y, img.width)

Widths == {7, 10}

\* the largest height of the images detectPixelBlocks is run on by itself
PixelMaxH == 3

Images ==
    UNION { { [width |-> w, rows |-> rws] : rws \in [1..h -> RowKinds] } :
            w \in Widths, h \in 1..PixelMaxH }

\* the screenshots the user uploads to the App
Tall == [width |-> 10, rows |-> <<"edge", "flat", "edge", "fuzzy", "edge">>]
Mixed == [width |-> 10, rows |-> <<"edge", "dim", "flat", "hue">>]
AppImages == {Tall, Mixed}

\* the data URL of a file that does not decode as an image: an Image element given it
\* as src never fires onload
Undecodable == [width |-> -1, rows |-> <<>>]

\* a common multiple of the heights of all images
Den == LCMOf({ imgHeight(i) : i \in Images \cup AppImages })

\* the value 1000 of the normalised coordinate space
Full == 1000 * Den

(***************************************************************************)
(* utils/imageProcessing: detectPixelBlocks and its helpers                *)
(***************************************************************************)
bucket == 8

getFuzzyColorKey(r, g, b) ==
    <<(r \div bucket) * bucket, (g \div bucket) * bucket, (b \div bucket) * bucket>>

\* the inner loop over x: colorCounts[key]++ and the running maxCount
RECURSIVE RowMaxCount(_, _, _, _, _)
RowMaxCount(img, y, x, colorCounts, maxCount) ==
    IF x >= img.width THEN maxCount
    ELSE LET p == PixelAt(img, x, y)
             key == getFuzzyColorKey(p.r, p.g, p.b)
             c == (IF key \in DOMAIN colorCounts THEN colorCounts[key] ELSE 0) + 1
             counts == [k \in DOMAIN colorCounts \cup {key} |->
                            IF k = key THEN c ELSE colorCounts[k]]
         IN RowMaxCount(img, y, x + 1, counts, Max(maxCount, c))

\* Math.max(0.90, invalidThreshold - 0.05), in percent
separatorThreshold(invalidThresh) == Max(90, invalidThresh - 5)

\* mutant: the comparison is strict
isSeparatorRow_strict(img, y, invalidThresh) ==
    RowMaxCount(img, y, 0, <<>>, 0) * 100 > separatorThreshold(invalidThresh) * img.width

\* maxCount / width >= separatorThreshold
isSeparatorRow(img, y, invalidThresh) ==
    RowMaxCount(img, y, 0, <<>>, 0) * 100 >= separatorThreshold(invalidThresh) * img.width

\* the pixels of rows y1 .. y2-1, in data order (getImageData(0, y1, width, y2 - y1))
BlockPixels(img, y1, y2) ==
    [i \in 1..((y2 - y1) * img.width) |->
        PixelAt(img, (i - 1) % img.width, y1 + ((i - 1) \div img.width))]

\* Math.round((r + g + b) / 3)
grayOf(p) == RoundDiv(p.r + p.g + p.b, 3)

\* calculateVariance(arr) > limit, for squareDiffs / len with mean = sum / len
VarianceExceeds(arr, limit) ==
    LET len == Len(arr)
        sum == SumSeq(arr)
        sq == SumSeq([i \in 1..len |-> arr[i] * arr[i]])
    IN IF len = 0 THEN 0 > limit
       ELSE len * sq - sum * sum > limit * len * len

colorThresh == 20
varThresh == 100
targetSize == 128
connThresh == 50
\* areaRatioThresh = 0.95, in percent
areaRatioThresh == 95
\* Math.abs(curGray - neighGray) <= 5
grayTolerance == 5

RECURSIVE SetToSeq(_)
SetToSeq(S) == IF S = {} THEN <<>>
               ELSE LET m == CHOOSE v \in S : \A u \in S : v <= u
                    IN <<m>> \o SetToSeq(S \ {m})

\* the in-range 8-neighbours of index c (0-based) in a raster of the given size
Neighbors(width, height, c) ==
    LET cx == c % width
        cy == c \div width
    IN { ny * width + nx : nx \in {cx - 1, cx, cx + 1} \cap (0..(width - 1)),
                           ny \in {cy - 1, cy, cy + 1} \cap (0..(height - 1)) } \ {c}

\* Math.abs(curGray - neighGray) <= 5 with gray = (r + g + b) / 3, not rounded
SameTone(p, q) ==
    LET d == (p.r + p.g + p.b) - (q.r + q.g + q.b)
    IN (IF d < 0 THEN -d ELSE d) <= 3 * grayTolerance

\* the BFS of one component: queue.shift(), currentConnPixels++, push the unvisited,
\* non-transparent neighbours of similar tone
RECURSIVE FloodFill(_, _, _, _)
FloodFill(pixelData, queue, visited, currentConnPixels) ==
    IF queue = <<>> THEN [visited |-> visited, pixels |-> currentConnPixels]
    ELSE LET c == Head(queue)
             fresh == { n \in Neighbors(pixelData.width, pixelData.height, c) :
                          /\ n \notin visited
                          /\ pixelData.data[n + 1].a > 0
                          /\ SameTone(pixelData.data[c + 1], pixelData.data[n + 1]) }
         IN FloodFill(pixelData, Tail(queue) \o SetToSeq(fresh), visited \cup fresh,
                      currentConnPixels + 1)

\* connCount++ and totalConnPixels += currentConnPixels, after the BFS f of a component
ComponentFound(scan, f) ==
    [visited |-> f.visited, connCount |-> scan.connCount + 1,
     totalConnPixels |-> scan.totalConnPixels + f.pixels]

\* the two loops over y and x, from index idx on
RECURSIVE ComponentScan(_, _, _)
ComponentScan(pixelData, idx, scan) ==
    IF idx >= pixelData.width * pixelData.height
      THEN [connCount |-> scan.connCount, totalConnPixels |-> scan.totalConnPixels]
    ELSE IF pixelData.data[idx + 1].a = 0 \/ idx \in scan.visited
      THEN ComponentScan(pixelData, idx + 1, scan)
    ELSE ComponentScan(pixelData, idx + 1,
             ComponentFound(scan, FloodFill(pixelData, <<idx>>, scan.visited \cup {idx}, 0)))

calculateConnectedComponents(pixelData) ==
    ComponentScan(pixelData, 0, [visited |-> {}, connCount |-> 0, totalConnPixels |-> 0])

\* connCount > connThresh || areaRatio < areaRatioThresh
DenseOrSparse(cc, area) ==
    \/ cc.connCount > connThresh
    \/ cc.totalConnPixels * 100 < areaRatioThresh * area

DensitySignal(pixelData) ==
    DenseOrSparse(calculateConnectedComponents(pixelData), pixelData.width * pixelData.height)

\* miniCtx.drawImage(tmpCanvas, 0, 0, miniCanvas.width, miniCanvas.height): the block
\* scaled so that its longer side is targetSize, sampled at the nearest source pixel
Downsample(img, y1, y2) ==
    LET blockHeight == y2 - y1
        longer == Max(img.width, blockHeight)
        mw == (img.width * targetSize) \div longer
        mh == (blockHeight * targetSize) \div longer
    IN [width |-> mw, height |-> mh,
        data |-> [i \in 1..(mw * mh) |->
                    PixelAt(img, (((i - 1) % mw) * img.width) \div mw,
                                 y1 + ((((i - 1) \div mw) * blockHeight) \div mh))]]

IsOpaque(p) == p.a # 0

isBlockMeaningful(img, y1, y2, threshold) ==
    LET blockHeight == y2 - y1
        data == BlockPixels(img, y1, y2)
        \* if (a === 0) continue
        opaque == SelectSeq(data, IsOpaque)
        colorSet == { <<opaque[i].r, opaque[i].g, opaque[i].b>> : i \in 1..Len(opaque) }
        pixelValues == [i \in 1..Len(opaque) |-> grayOf(opaque[i])]
    IN IF Cardinality(colorSet) > colorThresh THEN TRUE
       ELSE IF VarianceExceeds(pixelValues, varThresh) THEN TRUE
       \* scale = Math.min(targetSize / width, targetSize / blockHeight); if (scale < 1)
       ELSE IF img.width > targetSize \/ blockHeight > targetSize
         THEN DensitySignal(Downsample(img, y1, y2))
       ELSE FALSE

\* getCropDataUrl(img, box): the PNG of the region of img the box selects, i.e. bh rows
\* from row by on and bw columns from column bx on (at least one of each)
getCropDataUrl(img, box) ==
    LET bx == (box.xmin * img.width) \div Full
        by == (box.ymin * imgHeight(img)) \div Full
        bw == ((box.xmax - box.xmin) * img.width) \div Full
        bh == ((box.ymax - box.ymin) * imgHeight(img)) \div Full
    IN <<[left |-> bx, top |-> by, width |-> Max(1, bw),
          rows |-> SubSeq(img.rows, by + 1, by + Max(1, bh))]>>

\* a block without dataUrl
NoDataUrl == <<>>

Box(startY, y, height) ==
    [ymin |-> (startY * Full) \div height, xmin |-> 0,
     ymax |-> (y * Full) \div height, xmax |-> Full]

boxHeight(b) == b.box.ymax - b.box.ymin

SeqMap(Op(_), q) == [i \in 1..Len(q) |-> Op(q[i])]

\* mutant: a run of content that is too short or not meaningful is dropped
CloseRun_dropsInvalid(img, invalidThresh, minHeightRatio, now, y, st, rowIsSeparator) ==
    LET height == imgHeight(img)
        isEnd == (y = height)
        box == Box(st.startY, y, height)
    IN IF ~(rowIsSeparator # st.inSeparator \/ isEnd) THEN st
       ELSE IF st.inSeparator THEN
            [st EXCEPT !.separators = Append(@,
                          [id |-> <<"sep", now, Len(st.separators)>>,
                           label |-> <<"separator", Len(st.separators) + 1>>,
                           source |-> "separator", box |-> box, dataUrl |-> NoDataUrl]),
                       !.startY = y, !.inSeparator = rowIsSeparator]
       ELSE IF /\ (y - st.startY) * 1000 >= height * minHeightRatio
               /\ isBlockMeaningful(img, st.startY, y, invalidThresh) THEN
            [st EXCEPT !.validBlocks = Append(@,
                          [id |-> <<"block", now, Len(st.validBlocks)>>,
                           label |-> <<"content", Len(st.validBlocks) + 1>>,
                           source |-> "pixel", box |-> box, dataUrl |-> NoDataUrl]),
                       !.startY = y, !.inSeparator = rowIsSeparator]
       ELSE [st EXCEPT !.startY = y, !.inSeparator = rowIsSeparator]

\* One iteration of the loop "for (let y = 1; y <= height; y++)"; st holds startY,
\* inSeparator and the three lists.
CloseRun(img, invalidThresh, minHeightRatio, now, y, st, rowIsSeparator) ==
    LET height == imgHeight(img)
        isEnd == (y = height)
        blockHeight == y - st.startY
        box == Box(st.startY, y, height)
    IN IF ~(rowIsSeparator # st.inSeparator \/ isEnd) THEN st
       ELSE IF st.inSeparator THEN
            [st EXCEPT !.separators = Append(@,
                          [id |-> <<"sep", now, Len(st.separators)>>,
                           label |-> <<"separator", Len(st.separators) + 1>>,
                           source |-> "separator", box |-> box, dataUrl |-> NoDataUrl]),
                       !.startY = y, !.inSeparator = rowIsSeparator]
       \* blockHeight >= minHeightPx, with minHeightPx = height * minHeightRatio
       ELSE IF /\ blockHeight * 1000 >= height * minHeightRatio
               /\ isBlockMeaningful(img, st.startY, y, invalidThresh) THEN
            [st EXCEPT !.validBlocks = Append(@,
                          [id |-> <<"block", now, Len(st.validBlocks)>>,
                           label |-> <<"content", Len(st.validBlocks) + 1>>,
                           source |-> "pixel", box |-> box, dataUrl |-> NoDataUrl]),
                       !.startY = y, !.inSeparator = rowIsSeparator]
       ELSE [st EXCEPT !.invalidBlocks = Append(@,
                          [id |-> <<"invalid", now, Len(st.invalidBlocks)>>,
                           label |-> <<"invalid", Len(st.invalidBlocks) + 1>>,
                           source |-> "invalid", box |-> box, dataUrl |-> NoDataUrl]),
                       !.startY = y, !.inSeparator = rowIsSeparator]

\* const rowIsSeparator = isEnd ? !inSeparator : isSeparatorRow[y]
RowStep(img, invalidThresh, minHeightRatio, now, y, st) ==
    CloseRun(img, invalidThresh, minHeightRatio, now, y, st,
             IF y = imgHeight(img) THEN ~st.inSeparator
             ELSE isSeparatorRow(img, y, invalidThresh))

RECURSIVE RowLoop(_, _, _, _, _, _)
RowLoop(img, invalidThresh, minHeightRatio, now, y, st) ==
    IF y > imgHeight(img) THEN st
    ELSE RowLoop(img, invalidThresh, minHeightRatio, now, y + 1,
                 RowStep(img, invalidThresh, minHeightRatio, now, y, st))

\* mutant: the separators are left out of the total
coverageOf_noSeparators(validBlocks, invalids, seps) ==
    RoundDiv(100 * (SumSeq(SeqMap(boxHeight, validBlocks))
                    + SumSeq(SeqMap(boxHeight, invalids))), Full)

\* Math.round(((totalEffectiveH + totalInvalidH + totalSepH) / 1000) * 100)
coverageOf(validBlocks, invalids, seps) ==
    RoundDiv(100 * (SumSeq(SeqMap(boxHeight, validBlocks))
                    + SumSeq(SeqMap(boxHeight, invalids))
                    + SumSeq(SeqMap(boxHeight, seps))), Full)

\* getImageData on a canvas without area throws (IndexSizeError)
DetectThrew == [threw |-> TRUE, blocks |-> <<>>, invalidBlocks |-> <<>>,
                separators |-> <<>>, coverage |-> 0]

\* mutant: the labels carry the time stamp of the run, as the ids do
StampLabel(b) == [b EXCEPT !.label = <<b.label[1], b.id[2] * 1000 + b.label[2]>>]

DetectResult_stampedLabels(st) ==
    [threw |-> FALSE, blocks |-> SeqMap(StampLabel, st.validBlocks),
     invalidBlocks |-> SeqMap(StampLabel, st.invalidBlocks),
     separators |-> SeqMap(StampLabel, st.separators),
     coverage |-> Min(coverageOf(st.validBlocks, st.invalidBlocks, st.separators), 100)]

\* the value returned once the loop over the rows has ended in st
DetectResult(st) ==
    [threw |-> FALSE, blocks |-> st.validBlocks, invalidBlocks |-> st.invalidBlocks,
     separators |-> st.separators,
     coverage |-> Min(coverageOf(st.validBlocks, st.invalidBlocks, st.separators), 100)]

\* let startY = 0; let inSeparator = isSeparatorRow[0]
RowLoopStart(img, invalidThresh) ==
    [startY |-> 0, inSeparator |-> isSeparatorRow(img, 0, invalidThresh),
     validBlocks |-> <<>>, invalidBlocks |-> <<>>, separators |-> <<>>]

\* detectPixelBlocks(img, invalidThreshold, minHeightRatio) run at time now.
\* invalidThreshold is in percent, minHeightRatio in thousandths.
detectPixelBlocks(img, invalidThresh, minHeightRatio, now) ==
    IF img.width = 0 \/ imgHeight(img) = 0 THEN DetectThrew
    ELSE DetectResult(RowLoop(img, invalidThresh, minHeightRatio, now, 1,
                              RowLoopStart(img, invalidThresh)))

(***************************************************************************)
(* Inputs of detectPixelBlocks when it is run on its own                   *)
(***************************************************************************)
\* instants Date.now() is read at
Instants == {0, 1}

\* invalidThreshold (percent) and minHeightRatio (thousandths) of a run
Thresholds == {95, 97}
Ratios == {2, 500}

NoImage == [width |-> 0, rows |-> <<>>]

PixelInit ==
    /\ pImg \in Images
    /\ pThreshold \in Thresholds
    /\ pRatio \in Ratios
    /\ pRuns = <<>>

\* images without area: no column, or no row
EmptyImages == { [width |-> 0, rows |-> <<"edge">>], [width |-> 10, rows |-> <<>>] }

\* the images and thresholds (percent) of the calls made with any arguments: the
\* thresholds 0 and 150 lie outside (0, 1]
RequestImages == EmptyImages \cup { img \in Images : imgHeight(img) <= 2 }
RequestThresholds == {0, 97, 150}

InputInit ==
    /\ pImg \in RequestImages
    /\ pThreshold \in RequestThresholds
    /\ pRatio \in Ratios
    /\ pRuns = <<>>

(***************************************************************************)
(* withRetry                                                               *)
(***************************************************************************)
\* maxRetries: number = 5
DefaultMaxRetries == 5

NoError == [status |-> "", message |-> ""]

\* Errors the wrapped call can throw: error.status / error.code and error.message.
Errors ==
    { [status |-> "429", message |-> "Too Many Requests"],
      [status |-> "", message |-> "quota exceeded"],
      [status |-> "500", message |-> "Internal Server Error"],
      [status |-> "INTERNAL", message |-> "got 429"],
      [status |-> "400", message |-> "Bad Request"],
      [status |-> "", message |-> "LLM JSON parse error"] }

\* message.includes(sub) for the substrings the wrapper looks for
MessageIncludes(message, sub) ==
    CASE sub = "429"   -> message \in {"got 429"}
      [] sub = "quota" -> message \in {"quota exceeded"}
      [] sub = "500"   -> message \in {"got 500", "LLM error 500"}
      [] OTHER         -> FALSE

isRateLimit(err) ==
    \/ err.status = "429"
    \/ err.status = "RESOURCE_EXHAUSTED"
    \/ MessageIncludes(err.message, "429")
    \/ MessageIncludes(err.message, "quota")

isServerError(err) ==
    \/ err.status = "500"
    \/ err.status = "INTERNAL"
    \/ MessageIncludes(err.message, "500")

\* mutant: the rate-limit base delay is not used
baseDelay_flat(err) == 1000

baseDelay(err) == IF isRateLimit(err) THEN 2500 ELSE 1000

\* Math.random() * 1000, in [0, 1000): sample points of the interval
Jitters == {0, 999}

\* Values the wrapped call can resolve with
Results == {"r1", "r2"}

\* the exported functions that hand a call of the model to withRetry
WrappedCalls ==
    {"getStructuralAnalysis", "getFinalMapping", "getSemanticRefinement", "checkRelevance"}

\* response.choices[0]?.message?.content: a text, inside a markdown fence or not; the
\* texts are nothing, something that is not JSON, {"related": true}, {"related": false}
Contents == [fence : BOOLEAN, text : {"", "junk", "yes", "no"}]

\* !content
IsEmptyContent(c) == ~c.fence /\ c.text = ""

\* content.replace(/```json\n?|\n?```/g, "").trim()
StripFences(c) == c.text

\* JSON.parse(text) returns
JsonParses(text) == text \in {"yes", "no"}

Thrown(message) ==
    [ok |-> FALSE, value |-> "", error |-> [status |-> "", message |-> message]]

Returned(v) == [ok |-> TRUE, value |-> v, error |-> NoError]

\* parseJson(content, asType, errorMessage), and the try/catch of getSemanticRefinement
parseJson(c, errorMessage) ==
    IF JsonParses(StripFences(c)) THEN Returned(StripFences(c)) ELSE Thrown(errorMessage)

\* mutant: the message of the error thrown for an empty content names a status code
callLLM_statusInMessage(c, errorMessage) ==
    IF IsEmptyContent(c) THEN Thrown("LLM error 500") ELSE parseJson(c, errorMessage)

\* callLLM: if (!content) throw new Error(...), then the content is parsed
callLLM(c, errorMessage) ==
    IF IsEmptyContent(c) THEN Thrown("LLM empty content") ELSE parseJson(c, errorMessage)

\* checkRelevance: if (!content) return false; ...; return result.related === true, and
\* false where JSON.parse throws
relevanceOf(c) ==
    IF IsEmptyContent(c) THEN Returned("false")
    ELSE IF JsonParses(StripFences(c))
      THEN Returned(IF StripFences(c) = "yes" THEN "true" ELSE "false")
    ELSE Returned("false")

\* what the function handed to withRetry does with the content c the model answered
WrappedBody(fn, c) ==
    CASE fn = "getStructuralAnalysis" -> callLLM(c, "Step 1 empty content")
      [] fn = "getFinalMapping"       -> callLLM(c, "Mapping Step empty content")
      [] fn = "getSemanticRefinement" -> callLLM(c, "LLM JSON parse error")
      [] fn = "checkRelevance"        -> relevanceOf(c)

RetryInit ==
    /\ rPc = "call"
    /\ rI = 0
    /\ rCalls = <<>>
    /\ rWaits = <<>>
    /\ rLastError = NoError
    /\ rOutcome = [kind |-> "pending"]
    /\ rFn \in WrappedCalls
    /\ rAnswers = <<>>

\* return await fn()  -- fn resolves
FnResolves ==
    /\ rPc = "call"
    /\ \E v \in Results :
        /\ rCalls' = Append(rCalls, [ok |-> TRUE, value |-> v, error |-> NoError])
        /\ rOutcome' = [kind |-> "resolved", value |-> v]
    /\ rPc' = "done"
    /\ UNCHANGED <<rI, rWaits, rLastError, rFn, rAnswers>>
    /\ UNCHANGED <<pixelVars, pipeVars, batchVars, clock, appVars>>

\* catch (error): fn rejects with a retryable error; the delay is computed and the wait starts
FnRejectsValueRetryable(e, j) ==
    /\ rCalls' = Append(rCalls, [ok |-> FALSE, value |-> "", error |-> e])
    /\ rLastError' = e
    /\ rWaits' = Append(rWaits, Pow2(rI) * baseDelay(e) + j)
    /\ rPc' = "wait"
    /\ UNCHANGED <<rI, rOutcome, rFn, rAnswers>>
    /\ UNCHANGED <<pixelVars, pipeVars, batchVars, clock, appVars>>

FnRejectsRetryable ==
    /\ rPc = "call"
    /\ \E e \in Errors, j \in Jitters :
        /\ isRateLimit(e) \/ isServerError(e)
        /\ FnRejectsValueRetryable(e, j)

\* mutant: the final "throw error" is missing, so a fatal error is retried after a wait
FnRejectsFatal_retried ==
    /\ rPc = "call"
    /\ \E e \in Errors, j \in Jitters :
        /\ ~(isRateLimit(e) \/ isServerError(e))
        /\ FnRejectsValueRetryable(e, j)
    /\ UNCHANGED <<pixelVars, pipeVars, batchVars, clock, appVars>>

\* catch (error): neither rate limit nor server error: throw error
FnRejectsFatal ==
    /\ rPc = "call"
    /\ \E e \in Errors :
        /\ ~(isRateLimit(e) \/ isServerError(e))
        /\ rCalls' = Append(rCalls, [ok |-> FALSE, value |-> "", error |-> e])
        /\ rLastError' = e
        /\ rOutcome' = [kind |-> "rejected", error |-> e]
    /\ rPc' = "done"
    /\ UNCHANGED <<rI, rWaits, rFn, rAnswers>>
    /\ UNCHANGED <<pixelVars, pipeVars, batchVars, clock, appVars>>

\* return await fn() where the model answers with content c: fn returns or throws as
\* WrappedBody says, and what it throws goes through the catch block
FnAnswers ==
    /\ rPc = "call"
    /\ \E c \in Contents, j \in Jitters :
        LET out == WrappedBody(rFn, c)
        IN /\ rAnswers' = Append(rAnswers, [call |-> Len(rCalls) + 1, content |-> c])
           /\ rCalls' = Append(rCalls, out)
           /\ IF out.ok
                THEN /\ rOutcome' = [kind |-> "resolved", value |-> out.value]
                     /\ rPc' = "done"
                     /\ UNCHANGED <<rWaits, rLastError>>
                ELSE /\ rLastError' = out.error
                     /\ IF isRateLimit(out.error) \/ isServerError(out.error)
                          THEN /\ rWaits' = Append(rWaits, Pow2(rI) * baseDelay(out.error) + j)
                               /\ rPc' = "wait"
                               /\ UNCHANGED rOutcome
                          ELSE /\ rOutcome' = [kind |-> "rejected", error |-> out.error]
                               /\ rPc' = "done"
                               /\ UNCHANGED rWaits
    /\ UNCHANGED <<rI, rFn>>
    /\ UNCHANGED <<pixelVars, pipeVars, batchVars, clock, appVars>>

\* mutant: off-by-one loop test (i <= maxRetries)
WaitElapses_offByOne ==
    /\ rPc = "wait"
    /\ rI' = rI + 1
    /\ IF rI + 1 <= DefaultMaxRetries
         THEN /\ rPc' = "call"
              /\ UNCHANGED rOutcome
         ELSE /\ rPc' = "done"
              /\ rOutcome' = [kind |-> "rejected", error |-> rLastError]
    /\ UNCHANGED <<rCalls, rWaits, rLastError, rFn, rAnswers>>
    /\ UNCHANGED <<pixelVars, pipeVars, batchVars, clock, appVars>>

\* the setTimeout fires: continue; i++ ; loop test; after the loop: throw lastError
WaitElapses ==
    /\ rPc = "wait"
    /\ rI' = rI + 1
    /\ IF rI + 1 < DefaultMaxRetries
         THEN /\ rPc' = "call"
              /\ UNCHANGED rOutcome
         ELSE /\ rPc' = "done"
              /\ rOutcome' = [kind |-> "rejected", error |-> rLastError]
    /\ UNCHANGED <<rCalls, rWaits, rLastError, rFn, rAnswers>>
    /\ UNCHANGED <<pixelVars, pipeVars, batchVars, clock, appVars>>

(***************************************************************************)
(* detectPixelBlocks as a function of its inputs: runs on one pixel grid   *)
(***************************************************************************)
\* one call detectPixelBlocks(img, invalidThreshold, minHeightRatio), made at instant t;
\* at most two calls are made on the same inputs
DetectRun ==
    /\ Len(pRuns) <= 1
    /\ \E t \in Instants :
        /\ t >= clock
        /\ clock' = t
        /\ pRuns' = Append(pRuns, detectPixelBlocks(pImg, pThreshold, pRatio, t))
    /\ UNCHANGED <<pImg, pThreshold, pRatio>>
    /\ UNCHANGED <<retryVars, pipeVars, batchVars, appVars>>

(***************************************************************************)
(* App: state, upload, reset, processImage                                 *)
(***************************************************************************)
\* the value null of error, and the messages setError is called with
NoErrorMessage == "null"

\* the value null of semanticLog; the answer of the model is kept as <<refinementData>>
NoLog == <<>>

IdleProcess == [pc |-> "idle", img |-> NoImage, invalidThreshold |-> 0, minBlockRatio |-> 0]

IdleRefine ==
    [pc |-> "idle", img |-> NoImage, blocks |-> <<>>, invalidBlocks |-> <<>>,
     separators |-> <<>>, resultsP1 |-> <<>>, i |-> 0, finalStream |-> <<>>, k |-> 0]

IdleRestore == [pc |-> "idle", data |-> <<>>]

AppInit ==
    /\ strategy \in {"mapping", "pairwise"}
    /\ originalImage = NoImage
    /\ analyzing = FALSE
    /\ refining = FALSE
    /\ blocks = <<>>
    /\ invalidBlocks = <<>>
    /\ separators = <<>>
    /\ refinedBlocks = <<>>
    /\ completeness = 0
    /\ refinementCompleteness = 0
    /\ activeTab = "split"
    /\ error = NoErrorMessage
    /\ invalidThreshold = 97
    /\ minBlockRatio = 2
    /\ semanticLog = NoLog
    /\ pi = IdleProcess
    /\ rf = IdleRefine
    /\ rs = IdleRestore
    /\ files = <<>>
    /\ saved = <<>>

resetInternalState ==
    /\ blocks' = <<>>
    /\ invalidBlocks' = <<>>
    /\ separators' = <<>>
    /\ refinedBlocks' = <<>>
    /\ completeness' = 0
    /\ refinementCompleteness' = 0
    /\ activeTab' = "split"
    /\ semanticLog' = NoLog

\* reader.onload of handleFileUpload; the file input is rendered while there is no image
handleFileUpload ==
    /\ originalImage = NoImage
    /\ \E img \in AppImages : originalImage' = img
    /\ resetInternalState
    /\ error' = NoErrorMessage
    /\ UNCHANGED <<strategy, analyzing, refining, configVars, runVars, fileVars>>
    /\ UNCHANGED <<retryVars, pixelVars, pipeVars, batchVars, clock>>

\* the reset button is rendered while there is an image
reset ==
    /\ originalImage # NoImage
    /\ originalImage' = NoImage
    /\ resetInternalState
    /\ error' = NoErrorMessage
    /\ UNCHANGED <<strategy, analyzing, refining, configVars, runVars, fileVars>>
    /\ UNCHANGED <<retryVars, pixelVars, pipeVars, batchVars, clock>>

\* the slider of invalidThreshold (percent)
setInvalidThreshold ==
    /\ originalImage # NoImage
    /\ \E v \in Thresholds \ {invalidThreshold} : invalidThreshold' = v
    /\ UNCHANGED <<strategy, originalImage, analyzing, refining, listVars, error,
                   minBlockRatio, runVars, fileVars>>
    /\ UNCHANGED <<retryVars, pixelVars, pipeVars, batchVars, clock>>

\* processImage up to "await new Promise(... img.onload ...)"; the button is disabled
\* while analyzing
\* "await new Promise((resolve) => { img.onload = resolve; })" resolves for img
Loads(img) == img # Undecodable

processImageStart ==
    /\ originalImage # NoImage
    /\ ~analyzing
    /\ pi.pc = "idle"
    /\ analyzing' = TRUE
    /\ error' = NoErrorMessage
    /\ pi' = [pc |-> "loading", img |-> originalImage,
              invalidThreshold |-> invalidThreshold, minBlockRatio |-> minBlockRatio]
    /\ UNCHANGED <<strategy, originalImage, refining, listVars, configVars, rf, rs, fileVars>>
    /\ UNCHANGED <<retryVars, pixelVars, pipeVars, batchVars, clock>>

\* detectPixelBlocks on the images, thresholds and instants the App meets, tabulated
detected ==
    [img \in AppImages, thr \in Thresholds, ratio \in Ratios, t \in Instants |->
        detectPixelBlocks(img, thr, ratio, t)]

AddCrop(img, b) == [b EXCEPT !.dataUrl = getCropDataUrl(img, b.box)]

\* the rest of the try block of processImage, and its catch, once detectPixelBlocks has
\* given res
SetDecomposition(img, res) ==
    IF res.threw
      THEN /\ error' = "pixelFailed"
           /\ UNCHANGED listVars
      ELSE /\ blocks' = [i \in 1..Len(res.blocks) |-> AddCrop(img, res.blocks[i])]
           /\ invalidBlocks' = res.invalidBlocks
           /\ separators' = res.separators
           /\ completeness' = res.coverage
           /\ activeTab' = "split"
           /\ error' = IF res.blocks = <<>> THEN "noBlocks" ELSE error
           /\ UNCHANGED <<refinedBlocks, refinementCompleteness, semanticLog>>

\* processImage from img.onload to the end
processImageDone ==
    /\ pi.pc = "loading"
    /\ Loads(pi.img)
    /\ \E t \in Instants :
        /\ t >= clock
        /\ clock' = t
        /\ SetDecomposition(pi.img, detected[pi.img, pi.invalidThreshold, pi.minBlockRatio, t])
    /\ analyzing' = FALSE
    /\ pi' = IdleProcess
    /\ UNCHANGED <<strategy, originalImage, refining, configVars, rf, rs, fileVars>>
    /\ UNCHANGED <<retryVars, pixelVars, pipeVars, batchVars>>

(***************************************************************************)
(* App: handleRefine with getSemanticRefinement (mapping of block indices) *)
(***************************************************************************)
RECURSIVE InsertNumber(_, _)
InsertNumber(sorted, x) ==
    IF sorted = <<>> THEN <<x>>
    ELSE IF Head(sorted) <= x THEN <<Head(sorted)>> \o InsertNumber(Tail(sorted), x)
    ELSE <<x>> \o sorted

\* mutant: the indices are taken in the order the record gives them
SortNumbers_asGiven(q) == q

\* [...indices].sort((a, b) => a - b)
RECURSIVE SortNumbers(_)
SortNumbers(q) ==
    IF q = <<>> THEN <<>> ELSE InsertNumber(SortNumbers(SubSeq(q, 1, Len(q) - 1)), q[Len(q)])

\* where q[i] stands after a stable sort by box.ymin: behind the elements with a lesser
\* ymin and behind the earlier elements with the same ymin
RankByYmin(q, i) ==
    1 + Cardinality({ j \in 1..Len(q) :
                        \/ q[j].box.ymin < q[i].box.ymin
                        \/ (j < i /\ q[j].box.ymin = q[i].box.ymin) })

\* mutant: the list is left in the order it was built in
SortByYmin_notSorted(q) == q

\* list.sort((a, b) => a.box.ymin - b.box.ymin), a stable sort
SortByYmin(q) ==
    LET rank == [i \in 1..Len(q) |-> RankByYmin(q, i)]
    IN [p \in 1..Len(q) |-> q[CHOOSE i \in 1..Len(q) : rank[i] = p]]

\* mutant: the indices are not shifted to count from 0
ValidIndices_notShifted(mapItem, bs) ==
    SelectSeq(mapItem.original_block_indices, LAMBDA idx : idx >= 0 /\ idx < Len(bs))

\* original_block_indices.map(idx => idx - 1).filter(idx => idx >= 0 && idx < blocks.length)
ValidIndices(mapItem, bs) ==
    SelectSeq([i \in 1..Len(mapItem.original_block_indices) |->
                   mapItem.original_block_indices[i] - 1],
              LAMBDA idx : idx >= 0 /\ idx < Len(bs))

\* the refined block of one mapping record with at least one valid index
MergedBlock(mapItem, indices, bs, img, result, t) ==
    LET sortedIndices == SortNumbers(indices)
        startIdx == sortedIndices[1]
        endIdx == sortedIndices[Len(sortedIndices)]
        mergedBox == [ymin |-> bs[startIdx + 1].box.ymin, xmin |-> 0,
                      ymax |-> bs[endIdx + 1].box.ymax, xmax |-> Full]
        found == SelectSeq(result, LAMBDA r : r.sn = mapItem.sn)
        desc == IF found # <<>> THEN found[1].description ELSE <<"logic", mapItem.sn>>
    IN [id |-> <<"refined", t, mapItem.sn>>, label |-> desc, box |-> mergedBox,
        dataUrl |-> getCropDataUrl(img, mergedBox), source |-> "refined"]

\* refinementData.mapping.forEach(mapItem => ...), from record m on
RECURSIVE MappingLoop(_, _, _, _, _, _)
MappingLoop(refinementData, m, bs, img, t, acc) ==
    IF m > Len(refinementData.mapping) THEN acc
    ELSE LET mapItem == refinementData.mapping[m]
             indices == ValidIndices(mapItem, bs)
         IN IF indices = <<>>
              THEN MappingLoop(refinementData, m + 1, bs, img, t, acc)
              ELSE MappingLoop(refinementData, m + 1, bs, img, t,
                     [newRefinedBlocks |->
                          Append(acc.newRefinedBlocks,
                                 MergedBlock(mapItem, indices, bs, img,
                                             refinementData.result, t)),
                      usedPixelIndices |-> acc.usedPixelIndices \cup SeqToSet(indices)])

\* mutant: every block is carried through, used or not
UnmappedBlocks_all(bs, usedPixelIndices) ==
    [i \in 1..Len(bs) |-> [bs[i] EXCEPT !.id = <<"refined-raw", i - 1>>,
                                         !.label = <<"unmapped", i>>,
                                         !.source = "refined"]]

\* blocks.forEach((block, idx) => { if (!usedPixelIndices.has(idx)) ... })
UnmappedBlocks(bs, usedPixelIndices) ==
    LET Raw(idx) == [bs[idx + 1] EXCEPT !.id = <<"refined-raw", idx>>,
                                        !.label = <<"unmapped", idx + 1>>,
                                        !.source = "refined"]
        rest == SelectSeq([i \in 1..Len(bs) |-> i - 1],
                          LAMBDA idx : idx \notin usedPixelIndices)
    IN [i \in 1..Len(rest) |-> Raw(rest[i])]

\* newRefinedBlocks after the two loops and the sort
RefinedByMapping(refinementData, bs, img, t) ==
    LET acc == MappingLoop(refinementData, 1, bs, img, t,
                           [newRefinedBlocks |-> <<>>, usedPixelIndices |-> {}])
    IN SortByYmin(acc.newRefinedBlocks \o UnmappedBlocks(bs, acc.usedPixelIndices))

\* s.box.ymin >= r.box.ymin - 0.1 && s.box.ymax <= r.box.ymax + 0.1 where the
\* refinement is by mapping (tenths = 1); without the 0.1 where it is pairwise (tenths = 0)
isSwallowed(s, refined, tenths) ==
    \E i \in 1..Len(refined) :
        /\ 10 * s.box.ymin >= 10 * refined[i].box.ymin - tenths * Den
        /\ 10 * s.box.ymax <= 10 * refined[i].box.ymax + tenths * Den

\* mutant: every segment of the list is counted, swallowed or not
getUntouchedArea_countsAll(list, refined, tenths) ==
    SumSeq([i \in 1..Len(list) |-> boxHeight(list[i])])

getUntouchedArea(list, refined, tenths) ==
    SumSeq([i \in 1..Len(list) |->
               IF isSwallowed(list[i], refined, tenths) THEN 0 ELSE boxHeight(list[i])])

\* Math.min(100, Math.round(((refinedValidArea + untouched) / totalArea) * 100))
RefinementCompleteness(refined, invalids, seps, tenths) ==
    Min(100, RoundDiv(100 * (SumSeq(SeqMap(boxHeight, refined))
                             + getUntouchedArea(invalids, refined, tenths)
                             + getUntouchedArea(seps, refined, tenths)), Full))

\* one record of the mapping getSemanticRefinement resolves with
MapItem(sn, indices) == [sn |-> sn, original_block_indices |-> indices]

\* the mappings the model answers with: none, one unit, indices out of order, indices
\* out of range, two units, two units sharing a block, units out of order, a unit with
\* one index in range and a unit with none
Mappings ==
    { <<>>,
      <<MapItem(1, <<1, 2>>)>>,
      <<MapItem(1, <<3, 1>>)>>,
      <<MapItem(1, <<0, 4>>)>>,
      <<MapItem(1, <<1>>), MapItem(2, <<2, 3>>)>>,
      <<MapItem(1, <<1, 2>>), MapItem(2, <<2, 3>>)>>,
      <<MapItem(2, <<3>>), MapItem(1, <<1>>)>>,
      <<MapItem(1, <<0, 2>>), MapItem(2, <<4>>)>> }

Refinements ==
    { [result |-> <<[sn |-> 1, description |-> <<"unit", 1>>]>>, mapping |-> m] :
      m \in Mappings }

\* handleRefine up to "await new Promise(... img.onload ...)"; the button is rendered
\* while there are blocks and disabled while refining
handleRefineStart ==
    /\ blocks # <<>>
    /\ originalImage # NoImage
    /\ ~refining
    /\ rf.pc = "idle"
    /\ refining' = TRUE
    /\ error' = NoErrorMessage
    /\ rf' = [IdleRefine EXCEPT !.pc = "loading", !.img = originalImage, !.blocks = blocks,
                                 !.invalidBlocks = invalidBlocks,
                                 !.separators = separators]
    /\ UNCHANGED <<strategy, originalImage, analyzing, listVars, configVars, pi, rs, fileVars>>
    /\ UNCHANGED <<retryVars, pixelVars, pipeVars, batchVars, clock>>

\* img.onload where the refinement is by mapping: getSemanticRefinement is called
handleRefineLoaded ==
    /\ strategy = "mapping"
    /\ rf.pc = "loading"
    /\ Loads(rf.img)
    /\ rf' = [rf EXCEPT !.pc = "calling"]
    /\ UNCHANGED <<strategy, originalImage, analyzing, refining, listVars, error, configVars,
                   pi, rs, fileVars>>
    /\ UNCHANGED <<retryVars, pixelVars, pipeVars, batchVars, clock>>

\* getSemanticRefinement resolves: the rest of the try block, and finally
handleRefineMapped ==
    /\ strategy = "mapping"
    /\ rf.pc = "calling"
    /\ \E refinementData \in Refinements, t \in Instants :
        /\ t >= clock
        /\ clock' = t
        /\ semanticLog' = <<refinementData>>
        /\ LET newRefinedBlocks == RefinedByMapping(refinementData, rf.blocks, rf.img, t)
           IN /\ refinedBlocks' = newRefinedBlocks
              /\ refinementCompleteness' =
                     RefinementCompleteness(newRefinedBlocks, rf.invalidBlocks,
                                            rf.separators, 1)
    /\ activeTab' = "refined"
    /\ refining' = FALSE
    /\ rf' = IdleRefine
    /\ UNCHANGED <<strategy, originalImage, analyzing, blocks, invalidBlocks, separators,
                   completeness, error, configVars, pi, rs, fileVars>>
    /\ UNCHANGED <<retryVars, pixelVars, pipeVars, batchVars>>

\* mutant: the catch block clears the result of the decomposition as well
handleRefineFailed_clearsBlocks ==
    /\ rf.pc \in {"calling", "p1", "p2down", "p2up"}
    /\ error' = "refineFailed"
    /\ refining' = FALSE
    /\ rf' = IdleRefine
    /\ resetInternalState
    /\ UNCHANGED <<strategy, originalImage, analyzing, configVars, pi, rs, fileVars>>
    /\ UNCHANGED <<retryVars, pixelVars, pipeVars, batchVars, clock>>

\* the call of the model rejects: catch, and finally
handleRefineFailed ==
    /\ rf.pc \in {"calling", "p1", "p2down", "p2up"}
    /\ error' = "refineFailed"
    /\ refining' = FALSE
    /\ rf' = IdleRefine
    /\ UNCHANGED <<strategy, originalImage, analyzing, listVars, configVars, pi, rs, fileVars>>
    /\ UNCHANGED <<retryVars, pixelVars, pipeVars, batchVars, clock>>

(***************************************************************************)
(* App: handleRefine with checkRelevance (pairwise comparison)             *)
(***************************************************************************)
\* mutant: the two bounds are taken the wrong way round
mergeBoxes_inverted(b1, b2) ==
    [ymin |-> Max(b1.ymin, b2.ymin), xmin |-> 0, ymax |-> Min(b1.ymax, b2.ymax), xmax |-> Full]

mergeBoxes(b1, b2) ==
    [ymin |-> Min(b1.ymin, b2.ymin), xmin |-> 0, ymax |-> Max(b1.ymax, b2.ymax), xmax |-> Full]

\* the block pushed for a related pair; tag, n and t make up its id
MergedPair(tag, n, t, img, b1, b2) ==
    LET mBox == mergeBoxes(b1.box, b2.box)
    IN [id |-> <<tag, n, t>>, label |-> <<"merged", 0>>, box |-> mBox,
        dataUrl |-> getCropDataUrl(img, mBox), source |-> "refined"]

MergeItem(block, wasMerged) == [block |-> block, wasMerged |-> wasMerged]

\* mutant: only the first item of the pair is taken out
Splice_removesOne(stream, at, item) ==
    SubSeq(stream, 1, at) \o <<item>> \o SubSeq(stream, at + 2, Len(stream))

\* finalStream.splice(at, 2, item), at counted from 0
Splice(stream, at, item) ==
    SubSeq(stream, 1, at) \o <<item>> \o SubSeq(stream, at + 3, Len(stream))

\* "while (k < finalStream.length)" up to the next call of checkRelevance, or to its end
RECURSIVE SecondPassHead(_)
SecondPassHead(r) ==
    IF r.k >= Len(r.finalStream) THEN [r EXCEPT !.pc = "finish"]
    ELSE IF r.finalStream[r.k + 1].wasMerged THEN SecondPassHead([r EXCEPT !.k = @ + 1])
    ELSE IF r.k < Len(r.finalStream) - 1 THEN [r EXCEPT !.pc = "p2down"]
    ELSE IF r.k > 0 THEN [r EXCEPT !.pc = "p2up"]
    ELSE SecondPassHead([r EXCEPT !.k = @ + 1])

\* "while (i < blocks.length)" up to the next call of checkRelevance, or on to the
\* second loop
RECURSIVE FirstPassHead(_)
FirstPassHead(r) ==
    IF r.i >= Len(r.blocks)
      THEN SecondPassHead([r EXCEPT !.finalStream = r.resultsP1, !.k = 0])
    ELSE IF r.i < Len(r.blocks) - 1 THEN [r EXCEPT !.pc = "p1"]
    ELSE FirstPassHead([r EXCEPT !.resultsP1 = Append(@, MergeItem(r.blocks[r.i + 1], FALSE)),
                                 !.i = @ + 1])

\* finalStream.map((item, idx) => ({ ...item.block, label: ... }))
FinalResult(finalStream) ==
    [idx \in 1..Len(finalStream) |->
        [finalStream[idx].block EXCEPT !.label = <<"combed", idx>>]]

\* handleRefine goes on as r says: it waits for the next answer, or it has left the
\* loops and runs to its end
PairwiseResume(r) ==
    /\ IF r.pc = "finish"
         THEN LET finalResult == FinalResult(r.finalStream)
              IN /\ refinedBlocks' = finalResult
                 /\ activeTab' = "refined"
                 /\ refinementCompleteness' =
                        RefinementCompleteness(finalResult, r.invalidBlocks, r.separators, 0)
                 /\ refining' = FALSE
                 /\ rf' = IdleRefine
         ELSE /\ rf' = r
              /\ UNCHANGED <<refinedBlocks, activeTab, refinementCompleteness, refining>>
    /\ UNCHANGED <<strategy, originalImage, analyzing, blocks, invalidBlocks, separators,
                   completeness, semanticLog, error, configVars, pi, rs, fileVars>>

\* img.onload where the refinement is pairwise
handleRefineLoadedPairwise ==
    /\ strategy = "pairwise"
    /\ rf.pc = "loading"
    /\ Loads(rf.img)
    /\ PairwiseResume(FirstPassHead(rf))
    /\ UNCHANGED clock
    /\ UNCHANGED <<retryVars, pixelVars, pipeVars, batchVars>>

\* mutant: after a merge the loop goes on with the second block of the pair
firstPassRelated_advancesOne ==
    /\ strategy = "pairwise"
    /\ rf.pc = "p1"
    /\ \E t \in Instants :
        /\ t >= clock
        /\ clock' = t
        /\ LET merged == MergedPair("refined-p1", rf.i, t, rf.img,
                                    rf.blocks[rf.i + 1], rf.blocks[rf.i + 2])
           IN PairwiseResume(FirstPassHead(
                  [rf EXCEPT !.resultsP1 = Append(@, MergeItem(merged, TRUE)),
                             !.i = @ + 1]))
    /\ UNCHANGED <<retryVars, pixelVars, pipeVars, batchVars>>

\* checkRelevance(blocks[i], blocks[i + 1]) resolves in the first loop
firstPassRelated ==
    /\ strategy = "pairwise"
    /\ rf.pc = "p1"
    /\ \E t \in Instants :
        /\ t >= clock
        /\ clock' = t
        /\ LET merged == MergedPair("refined-p1", rf.i, t, rf.img,
                                    rf.blocks[rf.i + 1], rf.blocks[rf.i + 2])
           IN PairwiseResume(FirstPassHead(
                  [rf EXCEPT !.resultsP1 = Append(@, MergeItem(merged, TRUE)),
                             !.i = @ + 2]))
    /\ UNCHANGED <<retryVars, pixelVars, pipeVars, batchVars>>

firstPassUnrelated ==
    /\ strategy = "pairwise"
    /\ rf.pc = "p1"
    /\ PairwiseResume(FirstPassHead(
           [rf EXCEPT !.resultsP1 = Append(@, MergeItem(rf.blocks[rf.i + 1], FALSE)),
                      !.i = @ + 1]))
    /\ UNCHANGED clock
    /\ UNCHANGED <<retryVars, pixelVars, pipeVars, batchVars>>

\* checkRelevance(finalStream[k], finalStream[k+1]) resolves in the second loop
secondPassRelatedDown ==
    /\ strategy = "pairwise"
    /\ rf.pc = "p2down"
    /\ \E t \in Instants :
        /\ t >= clock
        /\ clock' = t
        /\ LET newBlock == MergedPair("refined-p2-d", rf.k, t, rf.img,
                                      rf.finalStream[rf.k + 1].block,
                                      rf.finalStream[rf.k + 2].block)
           IN PairwiseResume(SecondPassHead(
                  [rf EXCEPT !.finalStream = Splice(@, rf.k, MergeItem(newBlock, TRUE))]))
    /\ UNCHANGED <<retryVars, pixelVars, pipeVars, batchVars>>

\* mutant: after a negative answer about the neighbour below, the pass goes on to the
\* next item without asking about the neighbour above
secondPassUnrelatedDown_skipsUp ==
    /\ strategy = "pairwise"
    /\ rf.pc = "p2down"
    /\ PairwiseResume(SecondPassHead([rf EXCEPT !.k = @ + 1]))
    /\ UNCHANGED clock
    /\ UNCHANGED <<retryVars, pixelVars, pipeVars, batchVars>>

secondPassUnrelatedDown ==
    /\ strategy = "pairwise"
    /\ rf.pc = "p2down"
    /\ IF rf.k > 0
         THEN PairwiseResume([rf EXCEPT !.pc = "p2up"])
         ELSE PairwiseResume(SecondPassHead([rf EXCEPT !.k = @ + 1]))
    /\ UNCHANGED clock
    /\ UNCHANGED <<retryVars, pixelVars, pipeVars, batchVars>>

\* checkRelevance(finalStream[k-1], finalStream[k]) resolves in the second loop
secondPassRelatedUp ==
    /\ strategy = "pairwise"
    /\ rf.pc = "p2up"
    /\ \E t \in Instants :
        /\ t >= clock
        /\ clock' = t
        /\ LET newBlock == MergedPair("refined-p2-u", rf.k, t, rf.img,
                                      rf.finalStream[rf.k].block,
                                      rf.finalStream[rf.k + 1].block)
           IN PairwiseResume(SecondPassHead(
                  [rf EXCEPT !.finalStream = Splice(@, rf.k - 1, MergeItem(newBlock, TRUE)),
                             !.k = @ - 1]))
    /\ UNCHANGED <<retryVars, pixelVars, pipeVars, batchVars>>

\* mutant: after a negative answer about the neighbour above the cursor stays
secondPassUnrelatedUp_staysPut ==
    /\ strategy = "pairwise"
    /\ rf.pc = "p2up"
    /\ PairwiseResume(SecondPassHead(rf))
    /\ UNCHANGED clock
    /\ UNCHANGED <<retryVars, pixelVars, pipeVars, batchVars>>

secondPassUnrelatedUp ==
    /\ strategy = "pairwise"
    /\ rf.pc = "p2up"
    /\ PairwiseResume(SecondPassHead([rf EXCEPT !.k = @ + 1]))
    /\ UNCHANGED clock
    /\ UNCHANGED <<retryVars, pixelVars, pipeVars, batchVars>>

(***************************************************************************)
(* App: handleRefine on the screenshot of a long list.  The screenshot has  *)
(* LongRows rows in entries of equal height, each entry ending in a divider *)
(* of one row; the first entry is blank.  A divider is thinner than 0.1 on  *)
(* the scale of 1000.                                                      *)
(***************************************************************************)
LongRows == 12 * 1000

\* the numbers of entries of the list
LongItems == {60, 75}

LongImages ==
    [k \in LongItems |->
        [width |-> 10,
         rows |-> [y \in 1..LongRows |->
                      IF y % (LongRows \div k) = 0 THEN "flat"
                      ELSE IF y < LongRows \div k THEN "dim" ELSE "edge"]]]

\* what detectPixelBlocks returns for LongImages[k] at instant 0 under the thresholds the
\* App starts with: the blank entry is invalid, every divider is a separator, and every
\* other entry is a block; processImage has added the crops
LongList(k) ==
    LET h == LongRows \div k
    IN [originalImage |-> LongImages[k],
        blocks |-> [j \in 1..(k - 1) |->
                       AddCrop(LongImages[k],
                               [id |-> <<"block", 0, j - 1>>, label |-> <<"content", j>>,
                                source |-> "pixel", box |-> Box(j * h, j * h + h - 1, LongRows),
                                dataUrl |-> NoDataUrl])],
        invalidBlocks |-> <<[id |-> <<"invalid", 0, 0>>, label |-> <<"invalid", 1>>,
                             source |-> "invalid", box |-> Box(0, h - 1, LongRows),
                             dataUrl |-> NoDataUrl]>>,
        separators |-> [j \in 1..k |->
                           [id |-> <<"sep", 0, j - 1>>, label |-> <<"separator", j>>,
                            source |-> "separator", box |-> Box(j * h - 1, j * h, LongRows),
                            dataUrl |-> NoDataUrl]]]

\* the answer of the model in which the blocks m and m + 1 belong together and no others
\* do (m = 0: none do), as a mapping
PairMapping(m) ==
    [result |-> <<>>, mapping |-> IF m = 0 THEN <<>> ELSE <<MapItem(1, <<m, m + 1>>)>>]

\* finalStream where checkRelevance answers true for the blocks m and m + 1 in the first
\* loop and false for every other pair in either loop
PairStream(bs, img, m, t) ==
    [n \in 1..(IF m = 0 THEN Len(bs) ELSE Len(bs) - 1) |->
        IF m = 0 \/ n < m THEN MergeItem(bs[n], FALSE)
        ELSE IF n = m
          THEN MergeItem(MergedPair("refined-p1", m - 1, t, img, bs[m], bs[m + 1]), TRUE)
        ELSE MergeItem(bs[n + 1], FALSE)]

\* handleRefine from its first line to its last, for that answer
refineLongList ==
    /\ blocks # <<>>
    /\ originalImage # NoImage
    /\ ~refining
    /\ refinedBlocks = <<>>
    /\ \E m \in 0..(Len(blocks) - 1) :
        LET refined == IF strategy = "mapping"
                         THEN RefinedByMapping(PairMapping(m), blocks, originalImage, clock)
                         ELSE FinalResult(PairStream(blocks, originalImage, m, clock))
        IN /\ refinedBlocks' = refined
           /\ refinementCompleteness' =
                  RefinementCompleteness(refined, invalidBlocks, separators,
                                         IF strategy = "mapping" THEN 1 ELSE 0)
           /\ semanticLog' = IF strategy = "mapping" THEN <<PairMapping(m)>> ELSE semanticLog
    /\ activeTab' = "refined"
    /\ UNCHANGED <<strategy, originalImage, analyzing, refining, blocks, invalidBlocks,
                   separators, completeness, error, configVars, runVars, fileVars>>
    /\ UNCHANGED <<retryVars, pixelVars, pipeVars, batchVars, clock>>

(***************************************************************************)
(* App: handleRefine as the chain getStructuralAnalysis, getFinalMapping,  *)
(* local merge.  A run is kept in pl from the click on the button to its   *)
(* end, with the calls it has made.                                        *)
(***************************************************************************)
\* the runs of handleRefine one behaviour follows
MaxRuns == 2

\* StructuralResult.result: no unit, or one unit {sn, description}
Structures ==
    { [i \in 1..n |-> [sn |-> i, description |-> <<"unit", i>>]] : n \in 0..1 }

\* RefinedResult.result, as the indices given for each unit: none, or one unit made of
\* the first two blocks
ChainMappings == { <<>>, <<MapItem(1, <<1, 2>>)>> }

\* the steps of one run, in the order the chain makes them
ChainSteps ==
    <<"structuralStart", "structuralDone", "mappingStart", "mappingDone", "mergeStart",
      "mergeDone">>

\* a call of the model is in flight in the run
InFlight(run) == run.pc \in {"structural", "mapping"}

\* a run that has ended: what it had captured is released
Ended(run, pc, steps) ==
    [pc |-> pc, img |-> NoImage, blocks |-> <<>>, invalidBlocks |-> <<>>,
     separators |-> <<>>, structure |-> <<>>, steps |-> run.steps \o steps]

\* mutant: the button is enabled while a run is going on
refineEnabled_whileRefining == blocks # <<>>

\* {blocks.length > 0 && <button onClick={handleRefine} disabled={refining} ...>}
refineEnabled == blocks # <<>> /\ ~refining

\* handleRefine up to "await getStructuralAnalysis(originalImage)"
pipelineStart ==
    /\ strategy = "pipeline"
    /\ refineEnabled
    /\ originalImage # NoImage
    /\ Len(pl) < MaxRuns
    /\ refining' = TRUE
    /\ error' = NoErrorMessage
    /\ pl' = Append(pl, [pc |-> "structural", img |-> originalImage, blocks |-> blocks,
                         invalidBlocks |-> invalidBlocks, separators |-> separators,
                         structure |-> <<>>, steps |-> <<"structuralStart">>])
    /\ UNCHANGED <<strategy, originalImage, analyzing, listVars, configVars, runVars,
                   fileVars>>
    /\ UNCHANGED <<retryVars, pixelVars, batchVars, clock>>

\* getStructuralAnalysis resolves: getFinalMapping is called with its result
structuralResolves ==
    /\ \E n \in 1..Len(pl), s \in Structures :
        /\ pl[n].pc = "structural"
        /\ pl' = [pl EXCEPT ![n].pc = "mapping", ![n].structure = s,
                            ![n].steps = @ \o <<"structuralDone", "mappingStart">>]
    /\ UNCHANGED <<retryVars, pixelVars, batchVars, clock, appVars>>

\* getFinalMapping resolves: the local merge, and finally
mappingResolves ==
    /\ \E n \in 1..Len(pl), m \in ChainMappings, t \in Instants :
        /\ pl[n].pc = "mapping"
        /\ t >= clock
        /\ clock' = t
        /\ semanticLog' = <<[result |-> pl[n].structure, mapping |-> m]>>
        /\ LET newRefinedBlocks ==
                   RefinedByMapping([result |-> pl[n].structure, mapping |-> m],
                                    pl[n].blocks, pl[n].img, t)
           IN /\ refinedBlocks' = newRefinedBlocks
              /\ refinementCompleteness' =
                     RefinementCompleteness(newRefinedBlocks, pl[n].invalidBlocks,
                                            pl[n].separators, 1)
        /\ pl' = [pl EXCEPT ![n] = Ended(@, "merged",
                                         <<"mappingDone", "mergeStart", "mergeDone">>)]
    /\ activeTab' = "refined"
    /\ refining' = FALSE
    /\ UNCHANGED <<strategy, originalImage, analyzing, blocks, invalidBlocks, separators,
                   completeness, error, configVars, runVars, fileVars>>
    /\ UNCHANGED <<retryVars, pixelVars, batchVars>>

\* either call rejects: catch, and finally
pipelineFails ==
    /\ \E n \in 1..Len(pl) :
        /\ InFlight(pl[n])
        /\ pl' = [pl EXCEPT ![n] = Ended(@, "failed", <<>>)]
    /\ error' = "refineFailed"
    /\ refining' = FALSE
    /\ UNCHANGED <<strategy, originalImage, analyzing, listVars, configVars, runVars,
                   fileVars>>
    /\ UNCHANGED <<retryVars, pixelVars, batchVars, clock>>

(***************************************************************************)
(* handleRefine whose first pass is made in batches: the blocks are split  *)
(* into sequences of LLM_BATCH blocks, up to LLM_CONCURRENCY sequences are *)
(* worked on at a time, each of them serially, and the second pass is made *)
(* on the results put together.                                            *)
(***************************************************************************)
\* the values LLM_BATCH and LLM_CONCURRENCY are given in the environment
BatchSizes == {2, 3}
Concurrencies == {1, 2}

\* the numbers of blocks of the screenshots refined in batches
BatchCounts == {5, 6}

\* a screenshot of n blocks of content divided by flat rows
BatchImage(n) ==
    [width |-> 10,
     rows |-> [y \in 1..(2 * n) |-> IF y % 2 = 0 /\ y < 2 * n THEN "flat" ELSE "edge"]]

\* its blocks, as processImage sets them
BatchBlocks(n) ==
    LET res == detectPixelBlocks(BatchImage(n), 97, 2, 0)
    IN [i \in 1..Len(res.blocks) |-> AddCrop(BatchImage(n), res.blocks[i])]

NoBatch ==
    [phase |-> "idle", img |-> NoImage, related |-> {}, concurrency |-> 0, groups |-> <<>>,
     order |-> <<>>, stream |-> <<>>]

\* the blocks split into sequences of batch blocks, their order kept; first is the index
\* in blocks of the first block of the sequence
SplitIntoGroups(bs, batch) ==
    [g \in 1..((Len(bs) + batch - 1) \div batch) |->
        [pc |-> "waiting", first |-> (g - 1) * batch,
         blocks |-> SubSeq(bs, (g - 1) * batch + 1, Min(g * batch, Len(bs))),
         i |-> 0, results |-> <<>>]]

\* the loop over one sequence up to its next call of checkRelevance, or to its end
RECURSIVE GroupHead(_)
GroupHead(g) ==
    IF g.i >= Len(g.blocks) THEN [g EXCEPT !.pc = "done"]
    ELSE IF g.i < Len(g.blocks) - 1 THEN [g EXCEPT !.pc = "calling"]
    ELSE GroupHead([g EXCEPT !.results = Append(@, MergeItem(g.blocks[g.i + 1], FALSE)),
                             !.i = @ + 1])

\* the same loop after checkRelevance has answered for the blocks i and i + 1
GroupAnswered(g, isRelated, img, t) ==
    IF isRelated
      THEN GroupHead([g EXCEPT
               !.results = Append(@, MergeItem(MergedPair("refined-p1", g.first + g.i, t, img,
                                                          g.blocks[g.i + 1], g.blocks[g.i + 2]),
                                               TRUE)),
               !.i = @ + 2])
      ELSE GroupHead([g EXCEPT !.results = Append(@, MergeItem(g.blocks[g.i + 1], FALSE)),
                               !.i = @ + 1])

\* the sequence has come to its end in this step: it is next in the order of completion
Completed(before, after, n, order) ==
    IF before.pc # "done" /\ after.pc = "done" THEN Append(order, n) ELSE order

RECURSIVE Flatten(_)
Flatten(qs) == IF qs = <<>> THEN <<>> ELSE Head(qs) \o Flatten(Tail(qs))

\* mutant: the results are put together in the order the sequences completed in
Reassemble_byCompletion(groups, order) ==
    Flatten([k \in 1..Len(order) |-> groups[order[k]].results])

\* the results of the sequences put together by the index of the sequence
Reassemble(groups, order) ==
    Flatten([n \in 1..Len(groups) |-> groups[n].results])

\* a sequence is taken up: the next one waiting, while fewer than LLM_CONCURRENCY are
\* being worked on
groupStarts ==
    /\ bt.phase = "first"
    /\ Cardinality({ n \in 1..Len(bt.groups) : bt.groups[n].pc = "calling" })
           < bt.concurrency
    /\ \E n \in 1..Len(bt.groups) :
        /\ bt.groups[n].pc = "waiting"
        /\ \A m \in 1..(n - 1) : bt.groups[m].pc # "waiting"
        /\ LET after == GroupHead(bt.groups[n])
           IN bt' = [bt EXCEPT !.groups[n] = after,
                               !.order = Completed(bt.groups[n], after, n, @)]
    /\ UNCHANGED <<retryVars, pixelVars, pipeVars, clock, appVars>>

\* checkRelevance resolves in one of the sequences being worked on
groupAnswers ==
    /\ bt.phase = "first"
    /\ \E n \in 1..Len(bt.groups) :
        /\ bt.groups[n].pc = "calling"
        /\ LET g == bt.groups[n]
               after == GroupAnswered(g, (g.first + g.i) \in bt.related, bt.img, clock)
           IN bt' = [bt EXCEPT !.groups[n] = after,
                               !.order = Completed(g, after, n, @)]
    /\ UNCHANGED <<retryVars, pixelVars, pipeVars, clock, appVars>>

\* every sequence has come to its end: the second pass is given the stream
secondPassStarts ==
    /\ bt.phase = "first"
    /\ \A n \in 1..Len(bt.groups) : bt.groups[n].pc = "done"
    /\ bt' = [bt EXCEPT !.phase = "second", !.stream = Reassemble(bt.groups, bt.order)]
    /\ UNCHANGED <<retryVars, pixelVars, pipeVars, clock, appVars>>

(***************************************************************************)
(* App: handleBackup and handleRestore                                     *)
(***************************************************************************)
\* mutant: the crop is dropped and the box with it
StripCrop_noBox(b) ==
    [id |-> b.id, label |-> b.label, source |-> b.source,
     box |-> [ymin |-> 0, xmin |-> 0, ymax |-> Full, xmax |-> Full]]

\* ({ dataUrl, ...rest }) => rest
StripCrop(b) == [id |-> b.id, label |-> b.label, source |-> b.source, box |-> b.box]

\* b => ({ ...b, dataUrl: getCropDataUrl(img, b.box) })
RestoreCrop(img, b) ==
    [id |-> b.id, label |-> b.label, source |-> b.source, box |-> b.box,
     dataUrl |-> getCropDataUrl(img, b.box)]

restoreWithCrops(img, list) == [i \in 1..Len(list) |-> RestoreCrop(img, list[i])]

\* the BackupData handleBackup serialises at instant t
BackupData(t) ==
    [version |-> IF strategy = "mapping" THEN "4.7" ELSE "4.5",
     timestamp |-> t,
     originalImage |-> originalImage,
     config |-> [invalidThreshold |-> invalidThreshold, minBlockRatio |-> minBlockRatio],
     results |-> [blocks |-> SeqMap(StripCrop, blocks),
                  invalidBlocks |-> SeqMap(StripCrop, invalidBlocks),
                  separators |-> SeqMap(StripCrop, separators),
                  completeness |-> completeness,
                  refinedBlocks |-> SeqMap(StripCrop, refinedBlocks),
                  refinementCompleteness |-> refinementCompleteness]]

\* the backup button is rendered while there are blocks; the download replaces the file
\* of the backup before
handleBackup ==
    /\ originalImage # NoImage
    /\ blocks # <<>>
    /\ \E t \in Instants :
        /\ t >= clock
        /\ clock' = t
        /\ files' = <<BackupData(t)>>
    /\ saved' = <<[originalImage |-> originalImage, invalidThreshold |-> invalidThreshold,
                   minBlockRatio |-> minBlockRatio, blocks |-> blocks,
                   invalidBlocks |-> invalidBlocks, separators |-> separators,
                   refinedBlocks |-> refinedBlocks]>>
    /\ UNCHANGED <<strategy, originalImage, analyzing, refining, listVars, error, configVars,
                   runVars>>
    /\ UNCHANGED <<retryVars, pixelVars, pipeVars, batchVars>>

\* reader.onload of handleRestore on the backup file: JSON.parse succeeds and the image
\* starts loading
handleRestoreRead ==
    /\ rs.pc = "idle"
    /\ files # <<>>
    /\ rs' = [pc |-> "loading", data |-> files]
    /\ UNCHANGED <<strategy, originalImage, analyzing, refining, listVars, error, configVars,
                   pi, rf, fileVars>>
    /\ UNCHANGED <<retryVars, pixelVars, pipeVars, batchVars, clock>>

\* reader.onload of handleRestore on a file that is no JSON: JSON.parse throws
handleRestoreRejected ==
    /\ error' = "restoreFailed"
    /\ UNCHANGED <<strategy, originalImage, analyzing, refining, listVars, configVars,
                   runVars, fileVars>>
    /\ UNCHANGED <<retryVars, pixelVars, pipeVars, batchVars, clock>>

\* img.onload of handleRestore: the state is set from the file
handleRestoreLoaded ==
    /\ rs.pc = "loading"
    /\ LET data == rs.data[1]
           img == data.originalImage
       IN /\ invalidThreshold' = data.config.invalidThreshold
          /\ minBlockRatio' = data.config.minBlockRatio
          /\ originalImage' = img
          /\ blocks' = restoreWithCrops(img, data.results.blocks)
          /\ invalidBlocks' = restoreWithCrops(img, data.results.invalidBlocks)
          /\ separators' = restoreWithCrops(img, data.results.separators)
          /\ completeness' = data.results.completeness
          \* if (data.results.refinedBlocks): an array, which the file always holds
          /\ refinedBlocks' = restoreWithCrops(img, data.results.refinedBlocks)
          /\ refinementCompleteness' = data.results.refinementCompleteness
          /\ activeTab' = "refined"
    /\ error' = NoErrorMessage
    /\ rs' = IdleRestore
    /\ UNCHANGED <<strategy, analyzing, refining, semanticLog, pi, rf, fileVars>>
    /\ UNCHANGED <<retryVars, pixelVars, pipeVars, batchVars, clock>>

\* a record without one of its fields
WithoutField(rec, f) == [k \in DOMAIN rec \ {f} |-> rec[k]]

\* the backup file with its config, its results, or the invalidBlocks of its results
\* taken out: it is JSON and its image loads
DamagedFiles(file) ==
    { WithoutField(file, "config"), WithoutField(file, "results"),
      [file EXCEPT !.results = WithoutField(@, "invalidBlocks")] }

\* reader.onload of handleRestore on such a file: JSON.parse succeeds and the image
\* starts loading
handleRestoreReadDamaged ==
    /\ rs.pc = "idle"
    /\ files # <<>>
    /\ \E d \in DamagedFiles(files[1]) : rs' = [pc |-> "damaged", data |-> <<d>>]
    /\ UNCHANGED <<strategy, originalImage, analyzing, refining, listVars, error, configVars,
                   pi, rf, fileVars>>
    /\ UNCHANGED <<retryVars, pixelVars, pipeVars, batchVars, clock>>

\* img.onload of handleRestore on such a file: the setters are called in their order up
\* to the first read of a field of undefined, which throws; catch
handleRestoreThrows ==
    /\ rs.pc = "damaged"
    /\ LET data == rs.data[1]
           img == data.originalImage
       IN IF "config" \notin DOMAIN data
            THEN UNCHANGED <<originalImage, listVars, configVars>>
            ELSE /\ invalidThreshold' = data.config.invalidThreshold
                 /\ minBlockRatio' = data.config.minBlockRatio
                 /\ originalImage' = img
                 /\ IF "results" \notin DOMAIN data
                      THEN UNCHANGED listVars
                      ELSE /\ blocks' = restoreWithCrops(img, data.results.blocks)
                           /\ UNCHANGED <<invalidBlocks, separators, refinedBlocks,
                                          completeness, refinementCompleteness, activeTab,
                                          semanticLog>>
    /\ error' = "restoreFailed"
    /\ rs' = IdleRestore
    /\ UNCHANGED <<strategy, analyzing, refining, pi, rf, fileVars>>
    /\ UNCHANGED <<retryVars, pixelVars, pipeVars, batchVars, clock>>

(***************************************************************************)
(* Specifications                                                          *)
(***************************************************************************)
RetryIdle ==
    /\ rPc = "done"
    /\ rI = 0
    /\ rCalls = <<>>
    /\ rWaits = <<>>
    /\ rLastError = NoError
    /\ rOutcome = [kind |-> "pending"]
    /\ rFn = "getSemanticRefinement"
    /\ rAnswers = <<>>

PixelIdle ==
    /\ pImg = NoImage
    /\ pThreshold = 97
    /\ pRatio = 2
    /\ pRuns = <<>>

AppIdle == AppInit /\ strategy = "mapping"

PipelineIdle == pl = <<>>

BatchIdle == bt = NoBatch

\* withRetry around one wrapped call
RetryStart == RetryInit /\ PixelIdle /\ AppIdle /\ PipelineIdle /\ BatchIdle /\ clock = 0

RetryNext == FnResolves \/ FnAnswers \/ FnRejectsRetryable \/ FnRejectsFatal \/ WaitElapses

SpecRetry == RetryStart /\ [][RetryNext]_vars

\* detectPixelBlocks run twice on one pixel grid
PixelStart == PixelInit /\ RetryIdle /\ AppIdle /\ PipelineIdle /\ BatchIdle /\ clock = 0

PixelNext == DetectRun

SpecPixel == PixelStart /\ [][PixelNext]_vars

\* detectPixelBlocks called with any arguments
InputStart == InputInit /\ RetryIdle /\ AppIdle /\ PipelineIdle /\ BatchIdle /\ clock = 0

InputNext == DetectRun

SpecInput == InputStart /\ [][InputNext]_vars

\* the App: upload, decomposition and refinement, of either kind
AppStart == AppInit /\ RetryIdle /\ PixelIdle /\ PipelineIdle /\ BatchIdle /\ clock = 0

AppNext ==
    \/ handleFileUpload
    \/ reset
    \/ setInvalidThreshold
    \/ processImageStart
    \/ processImageDone
    \/ handleRefineStart
    \/ handleRefineLoaded
    \/ handleRefineMapped
    \/ handleRefineFailed
    \/ handleRefineLoadedPairwise
    \/ firstPassRelated
    \/ firstPassUnrelated
    \/ secondPassRelatedDown
    \/ secondPassUnrelatedDown
    \/ secondPassRelatedUp
    \/ secondPassUnrelatedUp

SpecApp == AppStart /\ [][AppNext]_vars

\* the App after the upload of a file, an image or not
BusyInit ==
    /\ strategy \in {"mapping", "pairwise"}
    /\ originalImage \in AppImages \cup {Undecodable}
    /\ analyzing = FALSE
    /\ refining = FALSE
    /\ blocks = <<>>
    /\ invalidBlocks = <<>>
    /\ separators = <<>>
    /\ refinedBlocks = <<>>
    /\ completeness = 0
    /\ refinementCompleteness = 0
    /\ activeTab = "split"
    /\ error = NoErrorMessage
    /\ invalidThreshold = 97
    /\ minBlockRatio = 2
    /\ semanticLog = NoLog
    /\ pi = IdleProcess
    /\ rf = IdleRefine
    /\ rs = IdleRestore
    /\ files = <<>>
    /\ saved = <<>>

BusyStart == BusyInit /\ RetryIdle /\ PixelIdle /\ PipelineIdle /\ BatchIdle /\ clock = 0

\* a promise handleRefine awaits settles
RefineSettles ==
    \/ handleRefineLoaded
    \/ handleRefineMapped
    \/ handleRefineFailed
    \/ handleRefineLoadedPairwise
    \/ firstPassRelated
    \/ firstPassUnrelated
    \/ secondPassRelatedDown
    \/ secondPassUnrelatedDown
    \/ secondPassRelatedUp
    \/ secondPassUnrelatedUp

BusyNext ==
    \/ processImageStart
    \/ processImageDone
    \/ handleRefineStart
    \/ RefineSettles

\* handleRefine awaits a promise that can settle: ENABLED <<RefineSettles>>_vars
RefinementPending ==
    \/ rf.pc = "loading" /\ Loads(rf.img)
    \/ rf.pc \in {"calling", "p1", "p2down", "p2up"}

\* the decompositions and refinements of the uploaded file; every promise that can
\* settle does.  The second condition is WF_vars(RefineSettles) with its ENABLED written
\* out as RefinementPending and its steps told by the change of rf, which only they
\* make while a refinement is pending.
SpecBusy ==
    /\ BusyStart
    /\ [][BusyNext]_vars
    /\ WF_vars(processImageDone)
    /\ ([]<>~RefinementPending \/ []<><<RefinementPending /\ rf' # rf>>_vars)

\* the state of the App after img has been uploaded and decomposed at instant t under
\* threshold thr
DecomposedAs(img, thr, t, res) ==
    [originalImage |-> img, invalidThreshold |-> thr, clock |-> t,
     blocks |-> [i \in 1..Len(res.blocks) |-> AddCrop(img, res.blocks[i])],
     invalidBlocks |-> res.invalidBlocks,
     separators |-> res.separators, completeness |-> res.coverage,
     refinedBlocks |-> <<>>, refinementCompleteness |-> 0, semanticLog |-> NoLog,
     activeTab |-> "split",
     error |-> IF res.blocks = <<>> THEN "noBlocks" ELSE NoErrorMessage]

Decomposed(img, thr, t) == DecomposedAs(img, thr, t, detected[img, thr, 2, t])

\* the state of the App after the blocks of state d have been refined by mapping
Refined(d, refinementData) ==
    LET newRefinedBlocks ==
            RefinedByMapping(refinementData, d.blocks, d.originalImage, d.clock)
    IN [d EXCEPT !.refinedBlocks = newRefinedBlocks,
                 !.refinementCompleteness =
                     RefinementCompleteness(newRefinedBlocks, d.invalidBlocks,
                                            d.separators, 1),
                 !.semanticLog = <<refinementData>>,
                 !.activeTab = "refined"]

\* the states backup and restore are examined from: an image has been uploaded and
\* decomposed, and its blocks may have been refined by mapping
SnapshotStates ==
    LET decomposed == { Decomposed(img, thr, t) :
                          img \in AppImages, thr \in Thresholds, t \in Instants }
    IN decomposed
       \cup { Refined(d, r) : d \in { e \in decomposed : e.blocks # <<>> },
                              r \in Refinements }

SnapshotInit ==
    /\ strategy = "mapping"
    /\ analyzing = FALSE
    /\ refining = FALSE
    /\ minBlockRatio = 2
    /\ pi = IdleProcess
    /\ rf = IdleRefine
    /\ rs = IdleRestore
    /\ files = <<>>
    /\ saved = <<>>
    /\ \E s \in SnapshotStates :
        /\ clock = s.clock
        /\ originalImage = s.originalImage
        /\ invalidThreshold = s.invalidThreshold
        /\ blocks = s.blocks
        /\ invalidBlocks = s.invalidBlocks
        /\ separators = s.separators
        /\ completeness = s.completeness
        /\ refinedBlocks = s.refinedBlocks
        /\ refinementCompleteness = s.refinementCompleteness
        /\ semanticLog = s.semanticLog
        /\ activeTab = s.activeTab
        /\ error = s.error

\* the App between a backup and its restore
SnapshotStart == SnapshotInit /\ RetryIdle /\ PixelIdle /\ PipelineIdle /\ BatchIdle

SnapshotNext ==
    \/ handleFileUpload
    \/ reset
    \/ setInvalidThreshold
    \/ handleBackup
    \/ handleRestoreRead
    \/ handleRestoreRejected
    \/ handleRestoreLoaded

SpecSnapshot == SnapshotStart /\ [][SnapshotNext]_vars

\* the App between a backup and the restore of the file, intact or damaged
RestoreNext ==
    \/ handleFileUpload
    \/ reset
    \/ setInvalidThreshold
    \/ handleBackup
    \/ handleRestoreRead
    \/ handleRestoreRejected
    \/ handleRestoreLoaded
    \/ handleRestoreReadDamaged
    \/ handleRestoreThrows

SpecRestore == SnapshotStart /\ [][RestoreNext]_vars

LongListInit ==
    /\ strategy \in {"mapping", "pairwise"}
    /\ analyzing = FALSE
    /\ refining = FALSE
    /\ completeness = 100
    /\ refinedBlocks = <<>>
    /\ refinementCompleteness = 0
    /\ activeTab = "split"
    /\ error = NoErrorMessage
    /\ invalidThreshold = 97
    /\ minBlockRatio = 2
    /\ semanticLog = NoLog
    /\ pi = IdleProcess
    /\ rf = IdleRefine
    /\ rs = IdleRestore
    /\ files = <<>>
    /\ saved = <<>>
    /\ \E l \in { LongList(k) : k \in LongItems } :
        /\ originalImage = l.originalImage
        /\ blocks = l.blocks
        /\ invalidBlocks = l.invalidBlocks
        /\ separators = l.separators

\* a refinement of the decomposed screenshot of a long list
LongListStart == LongListInit /\ RetryIdle /\ PixelIdle /\ PipelineIdle /\ BatchIdle /\ clock = 0

LongListNext == refineLongList \/ reset

SpecLongList == LongListStart /\ [][LongListNext]_vars

\* the App whose handleRefine is the three-step chain
PipelineInit ==
    /\ strategy = "pipeline"
    /\ originalImage = NoImage
    /\ analyzing = FALSE
    /\ refining = FALSE
    /\ blocks = <<>>
    /\ invalidBlocks = <<>>
    /\ separators = <<>>
    /\ refinedBlocks = <<>>
    /\ completeness = 0
    /\ refinementCompleteness = 0
    /\ activeTab = "split"
    /\ error = NoErrorMessage
    /\ invalidThreshold = 97
    /\ minBlockRatio = 2
    /\ semanticLog = NoLog
    /\ pi = IdleProcess
    /\ rf = IdleRefine
    /\ rs = IdleRestore
    /\ files = <<>>
    /\ saved = <<>>
    /\ pl = <<>>

PipelineStart == PipelineInit /\ RetryIdle /\ PixelIdle /\ BatchIdle /\ clock = 0

PipelineNext ==
    \/ handleFileUpload
    \/ reset
    \/ processImageStart
    \/ processImageDone
    \/ pipelineStart
    \/ structuralResolves
    \/ mappingResolves
    \/ pipelineFails

SpecPipeline == PipelineStart /\ [][PipelineNext]_vars

\* handleRefine in batches, from the split of the blocks on; related holds the pairs of
\* neighbouring blocks (by the index of the first) checkRelevance answers true for
BatchInit ==
    bt \in { [phase |-> "first", img |-> BatchImage(n), related |-> r, concurrency |-> c,
              groups |-> SplitIntoGroups(BatchBlocks(n), b), order |-> <<>>,
              stream |-> <<>>] :
             n \in BatchCounts, b \in BatchSizes, c \in Concurrencies,
             r \in UNION { SUBSET (0..(k - 2)) : k \in BatchCounts } }

BatchStart == BatchInit /\ RetryIdle /\ PixelIdle /\ PipelineIdle /\ AppIdle /\ clock = 0

BatchNext == groupStarts \/ groupAnswers \/ secondPassStarts

SpecBatch == BatchStart /\ [][BatchNext]_vars

(***************************************************************************)
(* Properties of withRetry                                                 *)
(***************************************************************************)
\* The signals of the retry policy, as the specification names them
RateLimitSignal(e) ==
    \/ e.status \in {"429", "RESOURCE_EXHAUSTED"}
    \/ e.message \in {"got 429", "quota exceeded"}
ServerFaultSignal(e) ==
    \/ e.status \in {"500", "INTERNAL"}
    \/ e.message \in {"got 500"}
TransientSignal(e) == RateLimitSignal(e) \/ ServerFaultSignal(e)

FailedWith(n, S(_)) == n \in 1..Len(rCalls) /\ ~rCalls[n].ok /\ S(rCalls[n].error)

FourRateLimitsThenSuccess ==
    /\ Len(rCalls) = 5
    /\ \A n \in 1..4 : FailedWith(n, RateLimitSignal)
    /\ rCalls[5].ok

\* C8: when the wrapped call fails with a rate-limit signal on its first 4 attempts and
\* succeeds on the 5th, withRetry resolves with that success value after exactly 5
\* invocations and exactly 4 waits, the wait after failed attempt i (i = 0..3) lying in
\* [2^i * 2500, 2^i * 2500 + 1000) ms.
C8_RetrySuccessPath ==
    FourRateLimitsThenSuccess =>
        /\ rPc = "done"
        /\ rOutcome = [kind |-> "resolved", value |-> rCalls[5].value]
        /\ Len(rWaits) = 4
        /\ \A i \in 0..3 :
            /\ rWaits[i + 1] >= Pow2(i) * 2500
            /\ rWaits[i + 1] < Pow2(i) * 2500 + 1000

C8_Witness == FourRateLimitsThenSuccess /\ rOutcome.kind = "resolved"

\* C9: a failure that is neither a rate-limit nor a server-fault signal propagates on its
\* first occurrence: no further invocation and no backoff wait follows it, the caller gets
\* that same error, and when it is the first attempt that fails so, the wrapped call was
\* invoked exactly once and no wait happened at all.
C9_FatalPropagates ==
    \A n \in 1..Len(rCalls) :
        (~rCalls[n].ok /\ ~TransientSignal(rCalls[n].error)) =>
            /\ n = Len(rCalls)
            /\ rPc = "done"
            /\ rOutcome = [kind |-> "rejected", error |-> rCalls[n].error]
            /\ Len(rWaits) = n - 1
            /\ (\A m \in 1..(n - 1) : FailedWith(m, TransientSignal))

C9_Witness ==
    /\ Len(rCalls) = 1
    /\ ~rCalls[1].ok
    /\ ~TransientSignal(rCalls[1].error)
    /\ rWaits = <<>>
    /\ rOutcome.kind = "rejected"

AllAttemptsTransient ==
    /\ rPc = "done"
    /\ rCalls # <<>>
    /\ \A n \in 1..Len(rCalls) : FailedWith(n, TransientSignal)

\* C10 as stated: after 5 transient failures the caller gets a ServiceUnavailableError,
\* an error distinct from the transient error itself.
C10_Original ==
    AllAttemptsTransient =>
        /\ Len(rCalls) = 5
        /\ rOutcome.kind = "rejected"
        /\ rOutcome.error \notin {rCalls[n].error : n \in 1..Len(rCalls)}

\* C10 (amended): when every attempt fails with a transient signal, withRetry makes
\* exactly 5 attempts and then rejects with the last transient error itself.
C10_ExhaustionRethrowsLast ==
    AllAttemptsTransient =>
        /\ Len(rCalls) = DefaultMaxRetries
        /\ rOutcome = [kind |-> "rejected", error |-> rCalls[Len(rCalls)].error]

C10_Witness == AllAttemptsTransient /\ Len(rCalls) = 5 /\ rOutcome.kind = "rejected"

\* the answers that are empty or do not parse: no text at all, an empty fence, or text
\* that is not JSON
EmptyOrUnparseable(c) == c.text \in {"", "junk"}

NotRetried(n) ==
    /\ n = Len(rCalls)
    /\ rPc = "done"
    /\ Len(rWaits) = n - 1

\* C11 as stated: whichever of the response shapes is expected, an empty or unparseable
\* answer of the model is not retried and the step ends in error, yielding no value.
C11_Original ==
    \A a \in 1..Len(rAnswers) :
        EmptyOrUnparseable(rAnswers[a].content) =>
            /\ NotRetried(rAnswers[a].call)
            /\ rOutcome.kind = "rejected"

\* C11 (amended): an empty or unparseable answer is never retried; where a structural or
\* a mapping result is expected the call rejects with the error raised for that answer,
\* and where a relevance result is expected the call resolves with false.
C11_BadAnswerNotRetried ==
    \A a \in 1..Len(rAnswers) :
        EmptyOrUnparseable(rAnswers[a].content) =>
            /\ NotRetried(rAnswers[a].call)
            /\ IF rFn = "checkRelevance"
                 THEN rOutcome = [kind |-> "resolved", value |-> "false"]
                 ELSE /\ rOutcome.kind = "rejected"
                      /\ rOutcome.error = rCalls[rAnswers[a].call].error
                      /\ rOutcome.error.message \in
                             {"LLM empty content", "Step 1 empty content",
                              "Mapping Step empty content", "LLM JSON parse error"}

C11_Witness ==
    /\ rFn = "getStructuralAnalysis"
    /\ Len(rCalls) = 2
    /\ Len(rAnswers) = 1
    /\ rAnswers[1].content = [fence |-> FALSE, text |-> ""]
    /\ rOutcome.kind = "rejected"

(***************************************************************************)
(* Properties of the pixel pipeline                                        *)
(***************************************************************************)
RunIndices == 1..Len(pRuns)

\* the first row and the row after the last of a segment of the image
FirstRow(img, seg) == (seg.box.ymin * imgHeight(img)) \div Full
EndRow(img, seg) == (seg.box.ymax * imgHeight(img)) \div Full

WithoutId(b) == [label |-> b.label, source |-> b.source, box |-> b.box, dataUrl |-> b.dataUrl]

TwoRunsAtDifferentTimes ==
    /\ Len(pRuns) = 2
    /\ pRuns[1].separators \o pRuns[1].blocks \o pRuns[1].invalidBlocks # <<>>
    /\ pRuns[1] # pRuns[2]

\* C3 as stated: two runs on the same grid and thresholds return the same lists in every
\* field of every segment, id included, and the same coverage.
C3_Original == \A i, j \in RunIndices : pRuns[i] = pRuns[j]

\* C3 (amended): two runs on the same grid and thresholds return the same lists, segment
\* by segment in label, source and box, and the same coverage; only the ids, which embed
\* the time of the run, may differ.
C3_DeterministicUpToIds ==
    \A i, j \in RunIndices :
        /\ SeqMap(WithoutId, pRuns[i].blocks) = SeqMap(WithoutId, pRuns[j].blocks)
        /\ SeqMap(WithoutId, pRuns[i].invalidBlocks) = SeqMap(WithoutId, pRuns[j].invalidBlocks)
        /\ SeqMap(WithoutId, pRuns[i].separators) = SeqMap(WithoutId, pRuns[j].separators)
        /\ pRuns[i].coverage = pRuns[j].coverage
        /\ pRuns[i].threw = pRuns[j].threw

C3_Witness == TwoRunsAtDifferentTimes

\* the sum of the normalised heights of the segments of a list
RECURSIVE HeightSum(_)
HeightSum(list) ==
    IF list = <<>> THEN 0
    ELSE (Head(list).box.ymax - Head(list).box.ymin) + HeightSum(Tail(list))

\* n is 100 * total / 1000 rounded to the nearest integer (halves up)
IsRoundedPercent(n, total) ==
    /\ 2 * n * Full <= 2 * 100 * total + Full
    /\ 2 * n * Full > 2 * 100 * total - Full

\* C5: the completeness returned by detectPixelBlocks is an integer in [0,100], equal to
\* min(100, round(100 * (sum of the heights of all pixelContent, invalidNoise and
\* separator segments) / 1000)).
C5_Completeness ==
    \A i \in RunIndices :
        LET res == pRuns[i]
            total == HeightSum(res.blocks) + HeightSum(res.invalidBlocks)
                     + HeightSum(res.separators)
        IN /\ res.coverage \in 0..100
           /\ \E n \in 0..(100 * total) \div Full + 1 :
                /\ IsRoundedPercent(n, total)
                /\ res.coverage = IF n > 100 THEN 100 ELSE n

C5_Witness ==
    \E i \in RunIndices :
        /\ pRuns[i].blocks # <<>>
        /\ pRuns[i].invalidBlocks # <<>>
        /\ pRuns[i].separators # <<>>
        /\ pRuns[i].coverage = 100

\* the largest number of pixels of row y that share one quantized colour
MajorityCount(img, y) ==
    LET cols == 0..(img.width - 1)
        q == [x \in cols |-> <<PixelAt(img, x, y).r \div 8, PixelAt(img, x, y).g \div 8,
                               PixelAt(img, x, y).b \div 8>>]
        counts == { Cardinality({ x \in cols : q[x] = k }) : k \in { q[x] : x \in cols } }
    IN CHOOSE n \in counts : \A m \in counts : m <= n

\* max(0.90, invalidThreshold - 0.05), in percent
ClaimedSeparatorThreshold == IF pThreshold - 5 > 90 THEN pThreshold - 5 ELSE 90

RowInSeparator(res, y) ==
    \E i \in 1..Len(res.separators) :
        /\ FirstRow(pImg, res.separators[i]) <= y
        /\ y < EndRow(pImg, res.separators[i])

\* C6: a row is classified as a separator iff majorityCount / W >= separatorThreshold,
\* with majorityCount the largest count of any colour quantized in buckets of 8 and
\* separatorThreshold = max(0.90, invalidThreshold - 0.05); equality counts as separator.
C6_SeparatorRows ==
    \A y \in 0..(imgHeight(pImg) - 1) :
        LET claimed == MajorityCount(pImg, y) * 100 >= ClaimedSeparatorThreshold * pImg.width
        IN \A i \in RunIndices : RowInSeparator(pRuns[i], y) <=> claimed

C6_Witness ==
    \E i \in RunIndices : \E y \in 0..(imgHeight(pImg) - 1) :
        /\ MajorityCount(pImg, y) * 100 = ClaimedSeparatorThreshold * pImg.width
        /\ RowInSeparator(pRuns[i], y)

\* the three signals of the classifier on rows y1 .. y2-1, each evaluated on the run
ClaimedMeaningful(img, y1, y2) ==
    LET data == BlockPixels(img, y1, y2)
        opaque == SelectSeq(data, IsOpaque)
        colours == { <<opaque[i].r, opaque[i].g, opaque[i].b>> : i \in 1..Len(opaque) }
        lumas == [i \in 1..Len(opaque) |-> grayOf(opaque[i])]
        sampled == IF img.width > 128 \/ y2 - y1 > 128
                     THEN Downsample(img, y1, y2)
                     ELSE [width |-> img.width, height |-> y2 - y1, data |-> data]
    IN \/ Cardinality(colours) > 20
       \/ VarianceExceeds(lumas, 100)
       \/ DensitySignal(sampled)

\* C7 as stated: a content run of any size is judged meaningful iff at least one of the
\* three signals triggers (more than 20 colours; luma variance > 100; more than 50
\* connected components or covered / sampled area < 0.95).
C7_Original ==
    \A i \in RunIndices :
        \A seg \in SeqToSet(pRuns[i].blocks) \cup SeqToSet(pRuns[i].invalidBlocks) :
            LET y1 == FirstRow(pImg, seg)
                y2 == EndRow(pImg, seg)
            IN (y2 - y1) * 1000 >= imgHeight(pImg) * pRatio =>
                 (seg.source = "pixel" <=> ClaimedMeaningful(pImg, y1, y2))

(***************************************************************************)
(* Properties of the aggregation of the rows into runs                     *)
(***************************************************************************)
\* the segments of the three lists of a result, as a set
AllSegments(res) ==
    SeqToSet(res.blocks) \cup SeqToSet(res.invalidBlocks) \cup SeqToSet(res.separators)

\* rows y1 .. y2-1 are a maximal run of rows classified alike, sep[y + 1] telling whether
\* row y is a separator row
MaximalRun(sep, y1, y2) ==
    /\ 0 <= y1 /\ y1 < y2 /\ y2 <= Len(sep)
    /\ \A y \in y1..(y2 - 1) : sep[y + 1] <=> sep[y1 + 1]
    /\ y1 > 0 => ~(sep[y1] <=> sep[y1 + 1])
    /\ y2 < Len(sep) => ~(sep[y2 + 1] <=> sep[y1 + 1])

\* C22: for every image of height H >= 1 the segments of the three lists taken together
\* are the maximal runs of rows classified alike: every segment is such a run, with the
\* box of its rows, a separator iff its rows are separator rows; every row lies in
\* exactly one segment, so they alternate, do not overlap and tile [0, 1000]; every run
\* of content, however short, is in exactly one of blocks and invalidBlocks; and the
\* completeness is 100.
C22_ExhaustiveAggregation ==
    \A i \in RunIndices :
        LET res == pRuns[i]
            H == imgHeight(pImg)
            sep == [y \in 1..H |-> isSeparatorRow(pImg, y - 1, pThreshold)]
        IN /\ \A seg \in AllSegments(res) :
                /\ MaximalRun(sep, FirstRow(pImg, seg), EndRow(pImg, seg))
                /\ seg.box = Box(FirstRow(pImg, seg), EndRow(pImg, seg), H)
                /\ seg.source = "separator" <=> sep[FirstRow(pImg, seg) + 1]
           /\ \A y \in 0..(H - 1) :
                Cardinality({ seg \in AllSegments(res) :
                                FirstRow(pImg, seg) <= y /\ y < EndRow(pImg, seg) }) = 1
           /\ Len(res.blocks) + Len(res.invalidBlocks) + Len(res.separators)
                  = Cardinality({ FirstRow(pImg, seg) : seg \in AllSegments(res) })
           /\ \A k \in 1..Len(res.blocks) : res.blocks[k].source = "pixel"
           /\ \A k \in 1..Len(res.invalidBlocks) : res.invalidBlocks[k].source = "invalid"
           /\ \A k \in 1..Len(res.separators) : res.separators[k].source = "separator"
           /\ res.coverage = 100

\* an image of three rows is returned as two separators around one run of content that
\* is meaningful but shorter than the least height of a block: it is an invalid run
C22_Witness ==
    \E i \in RunIndices :
        /\ imgHeight(pImg) = 3
        /\ pRatio = 500
        /\ Len(pRuns[i].separators) = 2
        /\ pRuns[i].blocks = <<>>
        /\ Len(pRuns[i].invalidBlocks) = 1
        /\ isBlockMeaningful(pImg, 1, 2, pThreshold)

(***************************************************************************)
(* Properties of detectPixelBlocks on arguments out of range               *)
(***************************************************************************)
\* the image has no area, or the threshold (percent) is outside (0, 1]
InvalidRequest == pImg.width <= 0 \/ imgHeight(pImg) <= 0 \/ pThreshold \notin 1..100

\* C21 as stated: a decomposition requested with an image without area or with a
\* threshold outside (0, 1] fails before any segment is produced, and no list of segments
\* is returned for it.
C21_Original ==
    InvalidRequest =>
        \A i \in RunIndices :
            /\ pRuns[i].threw
            /\ pRuns[i].blocks \o pRuns[i].invalidBlocks \o pRuns[i].separators = <<>>

(***************************************************************************)
(* Properties of the App                                                   *)
(***************************************************************************)
ValidBox(box) ==
    /\ 0 <= box.ymin
    /\ box.ymin < box.ymax
    /\ box.ymax <= Full
    /\ 0 <= box.xmin
    /\ box.xmin < box.xmax
    /\ box.xmax <= Full

AllValid(list) == \A i \in 1..Len(list) : ValidBox(list[i].box)

\* every list detectPixelBlocks returns, on every image and setting, holds valid boxes
DetectedBoxesValid ==
    \A img \in Images \cup AppImages, thr \in Thresholds, ratio \in Ratios :
        LET res == detectPixelBlocks(img, thr, ratio, 0)
        IN AllValid(res.blocks) /\ AllValid(res.invalidBlocks) /\ AllValid(res.separators)

\* C1: every segment the system produces (the separators, blocks and invalid blocks of
\* detectPixelBlocks; the refined blocks handleRefine builds by mapping or by mergeBoxes,
\* merged or carried through, also while the comparison is under way) has a box with
\* 0 <= ymin < ymax <= 1000 and 0 <= xmin < xmax <= 1000.
C1_BoxesValid ==
    /\ DetectedBoxesValid
    /\ AllValid(blocks)
    /\ AllValid(invalidBlocks)
    /\ AllValid(separators)
    /\ AllValid(refinedBlocks)
    /\ \A i \in 1..Len(rf.resultsP1) : ValidBox(rf.resultsP1[i].block.box)
    /\ \A i \in 1..Len(rf.finalStream) : ValidBox(rf.finalStream[i].block.box)

C1_Witness ==
    /\ strategy = "pairwise"
    /\ separators # <<>>
    /\ \E i \in 1..Len(refinedBlocks) :
        /\ refinedBlocks[i].id[1] = "refined-p2-u"
        /\ refinedBlocks[i].box.ymax - refinedBlocks[i].box.ymin = Full

\* the blocks of the example of the local merge: (0,100), (100,250), (400,500)
ExampleBlock(n, ymin, ymax) ==
    [id |-> <<"block", 0, n - 1>>, label |-> <<"content", n>>, source |-> "pixel",
     box |-> [ymin |-> ymin * Den, xmin |-> 0, ymax |-> ymax * Den, xmax |-> Full],
     dataUrl |-> NoDataUrl]

ExampleBlocks ==
    << ExampleBlock(1, 0, 100), ExampleBlock(2, 100, 250), ExampleBlock(3, 400, 500) >>

\* a record referencing {1, 2} gives exactly (0,250), and segment 3 is carried through
ExampleMerge ==
    LET refined == RefinedByMapping([result |-> <<>>, mapping |-> <<MapItem(1, <<1, 2>>)>>],
                                    ExampleBlocks, Tall, 0)
    IN /\ Len(refined) = 2
       /\ refined[1].box = [ymin |-> 0, xmin |-> 0, ymax |-> 250 * Den, xmax |-> Full]
       /\ refined[2].box = ExampleBlocks[3].box

\* the pixel blocks a mapping record references, among those handleRefine started from
Referenced(mapItem, bs) ==
    { i \in 1..Len(bs) :
        \E j \in 1..Len(mapItem.original_block_indices) :
            mapItem.original_block_indices[j] = i }

LeastOf(S) == CHOOSE n \in S : \A m \in S : n <= m

GreatestOf(S) == CHOOSE n \in S : \A m \in S : n >= m

\* the step in which handleRefine receives the mapping and sets the refined blocks
RefineByMappingCompletes ==
    /\ strategy = "mapping"
    /\ rf.pc = "calling"
    /\ rf'.pc = "idle"
    /\ error' # "refineFailed"

\* C2: for every mapping record that references at least one pixel block, the refined
\* block built for it has ymin equal to the least ymin and ymax equal to the greatest
\* ymax of the referenced blocks, xmin = 0 and xmax = 1000; on (0,100), (100,250),
\* (400,500) a record referencing {1,2} gives (0,250).
C2_LocalMerge ==
    [][RefineByMappingCompletes =>
        /\ ExampleMerge
        /\ \A m \in 1..Len(semanticLog'[1].mapping) :
            LET mapItem == semanticLog'[1].mapping[m]
                refs == Referenced(mapItem, rf.blocks)
            IN refs # {} =>
                 \E n \in 1..Len(refinedBlocks') :
                    /\ refinedBlocks'[n].id = <<"refined", clock', mapItem.sn>>
                    /\ refinedBlocks'[n].box =
                         [ymin |-> LeastOf({ rf.blocks[i].box.ymin : i \in refs }),
                          xmin |-> 0,
                          ymax |-> GreatestOf({ rf.blocks[i].box.ymax : i \in refs }),
                          xmax |-> Full]]_vars

C2_Witness ==
    /\ strategy = "mapping"
    /\ semanticLog # NoLog
    /\ semanticLog[1].mapping = <<MapItem(1, <<3, 1>>)>>
    /\ Len(refinedBlocks) = 2
    /\ refinedBlocks[1].id[1] = "refined"
    /\ refinedBlocks[1].box = [ymin |-> 0, xmin |-> 0, ymax |-> Full, xmax |-> Full]

\* the records of the answer that reference at least one pixel block in range
AcceptedRecords(mapping, bs) ==
    { m \in 1..Len(mapping) : Referenced(mapping[m], bs) # {} }

MergedSegments(list) == { n \in 1..Len(list) : list[n].id[1] = "refined" }

\* C12: in every mapping record the indices outside 1..segmentCount are discarded before
\* the merge, so the segment of a record spans its in-range blocks only; a record left
\* with no valid index contributes no segment; and the refinement run still completes.
C12_MappingFilter ==
    [][RefineByMappingCompletes =>
        LET mapping == semanticLog'[1].mapping
            accepted == AcceptedRecords(mapping, rf.blocks)
        IN /\ refining' = FALSE
           /\ activeTab' = "refined"
           /\ error' = error
           /\ Cardinality(MergedSegments(refinedBlocks')) = Cardinality(accepted)
           /\ \A m \in 1..Len(mapping) :
                LET made == { n \in MergedSegments(refinedBlocks') :
                                refinedBlocks'[n].id[3] = mapping[m].sn }
                    refs == Referenced(mapping[m], rf.blocks)
                IN IF m \in accepted
                     THEN \E n \in made :
                            /\ made = {n}
                            /\ refinedBlocks'[n].box.ymin =
                                   LeastOf({ rf.blocks[i].box.ymin : i \in refs })
                            /\ refinedBlocks'[n].box.ymax =
                                   GreatestOf({ rf.blocks[i].box.ymax : i \in refs })
                     ELSE made = {}]_vars

\* the answer names block 2 among three blocks next to the indices 0 and 4
C12_Witness ==
    /\ strategy = "mapping"
    /\ semanticLog # NoLog
    /\ semanticLog[1].mapping = <<MapItem(1, <<0, 2>>), MapItem(2, <<4>>)>>
    /\ Len(blocks) = 3
    /\ Len(refinedBlocks) = 3
    /\ MergedSegments(refinedBlocks) = {2}
    /\ refinedBlocks[2].box = blocks[2].box
    /\ activeTab = "refined"
    /\ ~refining

\* the entries of a refined list that carry pixel block i (counted from 1) through
CarriedThrough(list, i) ==
    { n \in 1..Len(list) : list[n].id = <<"refined-raw", i - 1>> }

\* C13: a pixel segment referenced by no accepted mapping record appears exactly once in
\* the refined list, with its box (and crop) unchanged and tagged as unmapped; a pixel
\* segment that a record references does not appear as a carried-through entry.
C13_UnmappedCarriedThrough ==
    [][RefineByMappingCompletes =>
        LET mapping == semanticLog'[1].mapping
        IN \A i \in 1..Len(rf.blocks) :
            LET carried == CarriedThrough(refinedBlocks', i)
            IN IF \E m \in 1..Len(mapping) : i \in Referenced(mapping[m], rf.blocks)
                 THEN carried = {}
                 ELSE \E n \in carried :
                        /\ carried = {n}
                        /\ refinedBlocks'[n].box = rf.blocks[i].box
                        /\ refinedBlocks'[n].dataUrl = rf.blocks[i].dataUrl
                        /\ refinedBlocks'[n].label = <<"unmapped", i>>
                        /\ refinedBlocks'[n].source = "refined"]_vars

\* blocks 1 and 2 are mapped and block 3 is carried through
C13_Witness ==
    /\ strategy = "mapping"
    /\ semanticLog # NoLog
    /\ semanticLog[1].mapping = <<MapItem(1, <<1, 2>>)>>
    /\ Len(blocks) = 3
    /\ Len(refinedBlocks) = 2
    /\ CarriedThrough(refinedBlocks, 3) = {2}
    /\ refinedBlocks[2].box = blocks[3].box
    /\ refinedBlocks[2].label = <<"unmapped", 3>>

AscendingByYmin(list) ==
    \A n \in 1..(Len(list) - 1) : list[n].box.ymin <= list[n + 1].box.ymin

\* C14: the refined list a refinement run publishes is sorted ascending by ymin, for
\* every mapping the model answers with, records listed out of vertical order included.
C14_RefinedSorted == AscendingByYmin(refinedBlocks)

\* the answer lists unit 2 (block 3) before unit 1 (block 1)
C14_Witness ==
    /\ strategy = "mapping"
    /\ semanticLog # NoLog
    /\ semanticLog[1].mapping = <<MapItem(2, <<3>>), MapItem(1, <<1>>)>>
    /\ Len(refinedBlocks) = 3
    /\ refinedBlocks[1].id[3] = 1
    /\ refinedBlocks[3].id[3] = 2
    /\ refinedBlocks[1].box.ymin < refinedBlocks[3].box.ymin

\* a step of handleRefine: its start, one of its awaits resolving, or its catch
RefineStep == rf' # rf

\* C15: no step of a refinement run, whether the run succeeds or fails, changes the
\* pixel-level result: blocks, invalidBlocks, separators and completeness are after the
\* step what they were before it, and so are the blocks the run itself works from.
C15_PixelResultUntouched ==
    [][RefineStep =>
        /\ UNCHANGED <<blocks, invalidBlocks, separators, completeness>>
        /\ (rf.pc # "idle" /\ rf'.pc # "idle") =>
              /\ rf'.blocks = rf.blocks
              /\ rf'.invalidBlocks = rf.invalidBlocks
              /\ rf'.separators = rf.separators]_vars

\* a refinement run has failed and the decomposition is still there
C15_Witness ==
    /\ error = "refineFailed"
    /\ rf.pc = "idle"
    /\ Len(blocks) = 3
    /\ Len(separators) = 2
    /\ completeness = 100
    /\ refinedBlocks = <<>>

Disjoint(a, b) == a.box.ymax <= b.box.ymin \/ b.box.ymax <= a.box.ymin

\* C16: the segments of the refined list made by one refinement run by mapping are
\* pairwise disjoint in their vertical extent, whatever mapping the model answers with
\* (non-contiguous indices and an index shared by two records included).
C16_Original ==
    strategy = "mapping" =>
        \A a, b \in 1..Len(refinedBlocks) :
            a # b => Disjoint(refinedBlocks[a], refinedBlocks[b])

\* s lies within the range of r widened by 0.1 on each side
Subsumed(s, r) ==
    /\ 10 * s.box.ymin >= 10 * r.box.ymin - Den
    /\ 10 * s.box.ymax <= 10 * r.box.ymax + Den

\* s lies within the range of r
Contained(s, r) == s.box.ymin >= r.box.ymin /\ s.box.ymax <= r.box.ymax

TotalHeight(list) == SumSeq([i \in 1..Len(list) |-> list[i].box.ymax - list[i].box.ymin])

\* the heights of the refined segments and of the invalid and separator segments that no
\* refined segment covers in the sense of Covers
RefinedTotal(Covers(_, _)) ==
    LET Left(list) ==
            SelectSeq(list, LAMBDA s : ~\E n \in 1..Len(refinedBlocks) :
                                           Covers(s, refinedBlocks[n]))
    IN TotalHeight(refinedBlocks) + TotalHeight(Left(invalidBlocks))
       + TotalHeight(Left(separators))

\* n = min(100, round(100 * total / 1000)), and n is in 0..100
IsCompletenessOf(n, total) ==
    /\ n \in 0..100
    /\ \E r \in 0..((100 * total) \div Full + 1) :
        /\ IsRoundedPercent(r, total)
        /\ n = IF r > 100 THEN 100 ELSE r

\* C17 as stated: the refinement completeness is min(100, round(100 * (refined heights +
\* heights of the invalid and separator segments not subsumed) / 1000)), a segment being
\* subsumed when it lies within a refined segment's range widened by 0.1 on each side.
C17_Original ==
    refinedBlocks # <<>> =>
        IsCompletenessOf(refinementCompleteness, RefinedTotal(Subsumed))

\* C17 (amended): as stated where the refinement is by mapping; where it is pairwise a
\* segment is subsumed only when it lies within a refined segment's range itself.  The
\* value is in 0..100 either way.
C17_RefinementCompleteness ==
    refinedBlocks # <<>> =>
        IF strategy = "mapping"
          THEN IsCompletenessOf(refinementCompleteness, RefinedTotal(Subsumed))
          ELSE IsCompletenessOf(refinementCompleteness, RefinedTotal(Contained))

\* 75 dividers, each thinner than 0.1, are subsumed by the blocks next to them
C17_Witness ==
    /\ strategy = "mapping"
    /\ Len(separators) = 75
    /\ Len(refinedBlocks) = 73
    /\ refinementCompleteness = 99

(***************************************************************************)
(* Properties of the two passes of the pairwise refinement                 *)
(***************************************************************************)
\* the box from the top of the upper segment to the bottom of the lower one, full width
UnionBox(b1, b2) ==
    [ymin |-> IF b1.ymin <= b2.ymin THEN b1.ymin ELSE b2.ymin, xmin |-> 0,
     ymax |-> IF b1.ymax >= b2.ymax THEN b1.ymax ELSE b2.ymax, xmax |-> Full]

\* the number of blocks of bs the items account for, read in order from block p + 1 on,
\* an unmerged item being the next block itself and a merged item the union of the next
\* two; -1 if the items are not of that kind
RECURSIVE Consumed(_, _, _)
Consumed(items, bs, p) ==
    IF items = <<>> THEN p
    ELSE IF p >= Len(bs) THEN -1
    ELSE IF ~Head(items).wasMerged
      THEN IF Head(items).block = bs[p + 1] THEN Consumed(Tail(items), bs, p + 1) ELSE -1
    ELSE IF /\ p + 2 <= Len(bs)
            /\ Head(items).block.box = UnionBox(bs[p + 1].box, bs[p + 2].box)
            /\ Head(items).block.source = "refined"
      THEN Consumed(Tail(items), bs, p + 2)
    ELSE -1

\* while the first pass waits for an answer it is about the blocks i and i + 1, and what
\* it has emitted accounts for the blocks before i, each once; when it has ended, for all
GreedyAccounting ==
    /\ rf.pc = "p1" =>
           /\ rf.i + 1 < Len(rf.blocks)
           /\ Consumed(rf.resultsP1, rf.blocks, 0) = rf.i
    /\ rf.pc \in {"p2down", "p2up"} =>
           Consumed(rf.resultsP1, rf.blocks, 0) = Len(rf.blocks)

\* an answer in the first pass: one item is emitted, merged (pass on to i + 2) or the
\* block i unmerged (pass on to i + 1); the only other item emitted in the step is the
\* last block, unmerged, when it is left without a partner
GreedyStep ==
    (rf.pc = "p1" /\ rf' # rf /\ rf'.pc \in {"p1", "p2down", "p2up"}) =>
        LET n == Len(rf.resultsP1)
            new == rf'.resultsP1[n + 1]
            next == rf.i + (IF new.wasMerged THEN 2 ELSE 1)
        IN /\ Len(rf'.resultsP1) > n
           /\ SubSeq(rf'.resultsP1, 1, n) = rf.resultsP1
           /\ ~new.wasMerged => new.block = rf.blocks[rf.i + 1]
           /\ new.wasMerged =>
                  new.block.box = UnionBox(rf.blocks[rf.i + 1].box, rf.blocks[rf.i + 2].box)
           /\ IF rf'.pc = "p1"
                THEN rf'.i = next /\ Len(rf'.resultsP1) = n + 1
              ELSE IF next = Len(rf.blocks) - 1
                THEN /\ Len(rf'.resultsP1) = n + 2
                     /\ rf'.resultsP1[n + 2] = MergeItem(rf.blocks[Len(rf.blocks)], FALSE)
              ELSE next = Len(rf.blocks) /\ Len(rf'.resultsP1) = n + 1

\* C23: the greedy pass scans the blocks in order and asks about the blocks i and i + 1;
\* on a positive answer it emits one merged item and goes on to i + 2, otherwise it
\* emits block i unmerged and goes on to i + 1; the last block, left without a partner,
\* is emitted unmerged without a call.  Each block contributes to exactly one item.
C23_GreedyPass == [][GreedyStep]_vars /\ []GreedyAccounting

\* three blocks: the first two were merged and the third emitted on its own
C23_Witness ==
    /\ rf.pc \in {"p2down", "p2up"}
    /\ Len(rf.blocks) = 3
    /\ Len(rf.resultsP1) = 2
    /\ rf.resultsP1[1].wasMerged
    /\ ~rf.resultsP1[2].wasMerged

\* the boxes of a stream, and of a list of blocks
StreamBoxes(stream) == [n \in 1..Len(stream) |-> stream[n].block.box]
ListBoxes(list) == [n \in 1..Len(list) |-> list[n].box]

\* the boxes of the stream after the step: the run may have ended in it, and then they
\* are those of the refined list
BoxesAfter == IF rf'.pc = "idle" THEN ListBoxes(refinedBlocks') ELSE StreamBoxes(rf'.finalStream)

\* the call of the step has been answered (the run has not failed in it)
Answered == rf' # rf /\ ~(rf'.pc = "idle" /\ error' = "refineFailed")

\* boxes with the items at positions at + 1 and at + 2 replaced by their union
MergedAt(boxes, at) ==
    SubSeq(boxes, 1, at) \o <<UnionBox(boxes[at + 1], boxes[at + 2])>>
        \o SubSeq(boxes, at + 3, Len(boxes))

\* a test is going on for the item at the cursor, which is not merged; the test against
\* the neighbour below needs one, the test against the neighbour above likewise
CorrectiveTests ==
    rf.pc \in {"p2down", "p2up"} =>
        /\ rf.k >= 0 /\ rf.k < Len(rf.finalStream)
        /\ ~rf.finalStream[rf.k + 1].wasMerged
        /\ rf.pc = "p2down" => rf.k + 1 < Len(rf.finalStream)
        /\ rf.pc = "p2up" => rf.k > 0

CorrectiveStep ==
    \* the neighbour above is asked about only after a negative answer about the one
    \* below, for the same item, or when there is none below
    /\ (rf'.pc = "p2up" /\ rf' # rf) =>
           \/ /\ rf.pc = "p2down"
              /\ rf'.k = rf.k
              /\ rf'.finalStream = rf.finalStream
           \/ rf'.k = Len(rf'.finalStream) - 1
    \* the answer about the neighbour below: the pair is replaced in place by its union,
    \* or the stream is as it was and the neighbour above, if there is one, comes next
    /\ (rf.pc = "p2down" /\ Answered) =>
           \/ /\ BoxesAfter = MergedAt(StreamBoxes(rf.finalStream), rf.k)
              /\ rf'.pc # "idle" => rf'.finalStream[rf.k + 1].wasMerged
           \/ /\ BoxesAfter = StreamBoxes(rf.finalStream)
              /\ rf.k > 0 => rf'.pc = "p2up" /\ rf'.k = rf.k
    \* the answer about the neighbour above
    /\ (rf.pc = "p2up" /\ Answered) =>
           \/ /\ BoxesAfter = MergedAt(StreamBoxes(rf.finalStream), rf.k - 1)
              /\ rf'.pc # "idle" => rf'.finalStream[rf.k].wasMerged
           \/ BoxesAfter = StreamBoxes(rf.finalStream)

\* C24: in the corrective pass every item not yet merged is tested first against its
\* neighbour below and against its neighbour above only if that test was negative or
\* there is no neighbour below; on a match the pair is replaced in place by one merged
\* item; merged items never start a test; when the neighbour below is relevant the
\* neighbour above is not asked about.
C24_CorrectiveOrder == [][CorrectiveStep]_vars /\ []CorrectiveTests

\* of three unmerged items the middle one has got a negative answer about the one below
\* and is now tested against the one above
C24_Witness ==
    /\ rf.pc = "p2up"
    /\ Len(rf.finalStream) = 3
    /\ rf.k = 1

(***************************************************************************)
(* Properties of the refined list against the current decomposition        *)
(***************************************************************************)
\* the segment reaches from the top of one of the current blocks to the bottom of that
\* block or of a later one
BuiltFromBlocks(r) ==
    \E i, j \in 1..Len(blocks) :
        /\ i <= j
        /\ r.box.ymin = blocks[i].box.ymin
        /\ r.box.ymax = blocks[j].box.ymax

\* C25 as stated: after any sequence of upload, decomposition, refinement and reset the
\* extent of every refined segment is the union of the extents of blocks of the current
\* decomposition; a decomposition made again leaves no refined list of an earlier one.
C25_Original == \A n \in 1..Len(refinedBlocks) : BuiltFromBlocks(refinedBlocks[n])

(***************************************************************************)
(* Properties of the three-step chain                                      *)
(***************************************************************************)
IsPrefix(p, q) == Len(p) <= Len(q) /\ p = SubSeq(q, 1, Len(p))

RunsInFlight == { n \in 1..Len(pl) : InFlight(pl[n]) }

AbortedRunEnds ==
    /\ rf.pc \in {"calling", "p1", "p2down", "p2up"}
    /\ rf'.pc = "idle"
    /\ originalImage # rf.img

\* C19: when the user resets, uploads a new image or restores a snapshot while a
\* refinement call is in flight, the call is not cancelled but its results are
\* discarded: the step that ends the aborted run leaves the refined list, the refinement
\* completeness and the active tab as they are.
C19_Original ==
    [][AbortedRunEnds =>
           /\ refinedBlocks' = refinedBlocks
           /\ refinementCompleteness' = refinementCompleteness
           /\ activeTab' = activeTab]_vars

(***************************************************************************)
(* Properties of the first pass made in batches                            *)
(***************************************************************************)
\* the results of one sequence worked through on its own, from its start
RECURSIVE GroupRun(_, _, _)
GroupRun(g, related, img) ==
    IF g.pc = "done" THEN g.results
    ELSE IF g.pc = "waiting" THEN GroupRun(GroupHead(g), related, img)
    ELSE GroupRun(GroupAnswered(g, (g.first + g.i) \in related, img, 0), related, img)

\* the results of the sequences of a list of blocks, one sequence after the other
ByGroupIndex(b) ==
    Flatten([n \in 1..Len(b.groups) |->
                GroupRun([b.groups[n] EXCEPT !.pc = "waiting", !.i = 0, !.results = <<>>],
                         b.related, b.img)])

Segment(b) == [id |-> b.id, label |-> b.label, source |-> b.source, box |-> b.box]

Segments(list) == [i \in 1..Len(list) |-> Segment(list[i])]

\* the step in which handleRestore sets the state from the file handleBackup wrote last
RestoreOfBackupCompletes ==
    /\ rs.pc = "loading"
    /\ rs'.pc = "idle"
    /\ rs.data = files
    /\ saved # <<>>

\* C4: restoring the file handleBackup wrote from a state reproduces, in each of the four
\* lists, the segments of that state in the same order with the same boxes, and the two
\* thresholds and the image of that state.
C4_RoundTrip ==
    [][RestoreOfBackupCompletes =>
        /\ Segments(blocks') = Segments(saved[1].blocks)
        /\ Segments(invalidBlocks') = Segments(saved[1].invalidBlocks)
        /\ Segments(separators') = Segments(saved[1].separators)
        /\ Segments(refinedBlocks') = Segments(saved[1].refinedBlocks)
        /\ invalidThreshold' = saved[1].invalidThreshold
        /\ minBlockRatio' = saved[1].minBlockRatio
        /\ originalImage' = saved[1].originalImage]_vars

\* a restore has set the state: the separators carry crops, which only a restore gives them
C4_Witness ==
    /\ rs.pc = "idle"
    /\ files # <<>>
    /\ saved # <<>>
    /\ separators # <<>>
    /\ separators[1].dataUrl # NoDataUrl
    /\ refinedBlocks # <<>>
    /\ Segments(refinedBlocks) = Segments(saved[1].refinedBlocks)
    /\ originalImage = saved[1].originalImage

\* the restore fails in this step: its catch sets the message
RestoreFails == error' = "restoreFailed" /\ (rs.pc = "damaged" \/ error # "restoreFailed")

\* C26 as stated: when handleRestore fails at any point (a file that cannot be parsed, an
\* image that cannot be loaded, config or results fields missing) the image, both
\* thresholds, the four lists and both completeness values keep the values they had
\* before; only the message changes.
C26_Original ==
    [][RestoreFails =>
           UNCHANGED <<originalImage, invalidThreshold, minBlockRatio, blocks, invalidBlocks,
                       separators, refinedBlocks, completeness,
                       refinementCompleteness>>]_vars

(***************************************************************************)
(* Properties of the stream the pairwise refinement ends with              *)
(***************************************************************************)
\* boxes in ascending order of ymin, no two of them overlapping
SortedDisjoint(boxes) ==
    /\ \A n \in 1..(Len(boxes) - 1) : boxes[n].ymin <= boxes[n + 1].ymin
    /\ \A p, q \in 1..Len(boxes) : p < q => boxes[p].ymax <= boxes[q].ymin

\* the positions of the boxes that contain the extent of box b
Holders(boxes, b) == { n \in 1..Len(boxes) : boxes[n].ymin <= b.ymin /\ b.ymax <= boxes[n].ymax }

\* the pairwise run ends in this step and publishes its stream
PairwiseEnds ==
    /\ rf.pc \in {"p1", "p2down", "p2up"}
    /\ rf'.pc = "idle"
    /\ error' # "refineFailed"

\* C27: for every sequence of answers the stream the pairwise refinement ends with is in
\* ascending order of ymin, no two of its segments overlap, and the extent of every
\* segment it was given lies inside exactly one of its segments.
C27_FinalStream ==
    [][PairwiseEnds =>
           LET out == ListBoxes(refinedBlocks')
           IN /\ SortedDisjoint(out)
              /\ SortedDisjoint(ListBoxes(rf.blocks))
              /\ \A n \in 1..Len(rf.blocks) : Cardinality(Holders(out, rf.blocks[n].box)) = 1]_vars

\* a pairwise run on three blocks has ended with two segments, one of them a union
C27_Witness ==
    /\ strategy = "pairwise"
    /\ rf.pc = "idle"
    /\ ~refining
    /\ error = NoErrorMessage
    /\ Len(blocks) = 3
    /\ Len(refinedBlocks) = 2
    /\ refinedBlocks[1].label = <<"combed", 1>>
    /\ \E n \in 1..2 : refinedBlocks[n].source = "refined"
    /\ \A n \in 1..3 : Cardinality(Holders(ListBoxes(refinedBlocks), blocks[n].box)) = 1

(***************************************************************************)
(* Properties of the progress of the corrective pass                       *)
(***************************************************************************)
\* the number of items of the stream below the item at the cursor
Rest(r) == Len(r.finalStream) - r.k - 1

\* what is left to the pass: the items below the cursor, and for the item at the cursor
\* the test against the neighbour above when the one against the neighbour below is on
Variant(r) == 2 * Rest(r) + (IF r.pc = "p2down" THEN 1 ELSE 0)

\* the cursor is on an item of the stream
CursorInBounds ==
    rf.pc \in {"p2down", "p2up"} =>
        /\ 0 <= rf.k /\ rf.k < Len(rf.finalStream)
        /\ Len(rf.finalStream) <= Len(rf.blocks)
        /\ Variant(rf) >= 0

CorrectiveProgress ==
    (rf.pc \in {"p2down", "p2up"} /\ Answered) =>
        \* the stream keeps its length or loses one item
        /\ Len(BoxesAfter) \in {Len(rf.finalStream) - 1, Len(rf.finalStream)}
        /\ rf'.pc # "idle" =>
               /\ rf'.pc \in {"p2down", "p2up"}
               \* less is left than before
               /\ Variant(rf') < Variant(rf)
               \* the second call for the same item, or a merge, or the cursor moves on
               /\ \/ /\ rf.pc = "p2down" /\ rf'.pc = "p2up"
                     /\ rf'.k = rf.k /\ rf'.finalStream = rf.finalStream
                  \/ Len(rf'.finalStream) = Len(rf.finalStream) - 1 /\ Rest(rf') < Rest(rf)
                  \/ rf'.finalStream = rf.finalStream /\ rf'.k > rf.k

\* C28: the corrective pass terminates: its cursor stays on an item of the stream, which
\* only shrinks; every step merges two items or moves the cursor on, so that what is
\* left to the pass decreases with every answer; an item that was not merged when the
\* pass reached it is asked about at most twice, once against the neighbour below and
\* once against the neighbour above, and the pass never comes back to it.
C28_CorrectiveTerminates ==
    /\ [][CorrectiveProgress]_vars
    /\ []CursorInBounds
    /\ (rf.pc \in {"p2down", "p2up"}) ~> (rf.pc = "idle")

\* the pass has merged the first two of three items and tests the last one against the
\* merged item above it
C28_Witness ==
    /\ rf.pc = "p2up"
    /\ Len(rf.resultsP1) = 3
    /\ Len(rf.finalStream) = 2
    /\ rf.finalStream[1].wasMerged
    /\ rf.k = 1

(***************************************************************************)
(* Properties of the busy flags                                            *)
(***************************************************************************)
\* C29 as stated: every invocation of processImage and of handleRefine eventually sets
\* its busy flag (analyzing, refining) back to false, whether it succeeds or fails and
\* also when the image fails to load; no run leaves the flag set.
C29_Original == (analyzing ~> ~analyzing) /\ (refining ~> ~refining)

(***************************************************************************)
(* Properties of the waits of withRetry                                    *)
(***************************************************************************)
\* C30 as stated: withRetry waits only between attempts: a run that has made n attempts
\* has waited at most n - 1 times, so that after the last attempt allowed has failed
\* with a retryable error the wrapper rejects with that error without a further wait.
C30_Original ==
    /\ (rPc = "done" /\ rCalls # <<>>) => Len(rWaits) <= Len(rCalls) - 1
    /\ (rPc = "wait") => Len(rCalls) < DefaultMaxRetries

====
